---- MODULE Spec2Model ----
(***************************************************************************)
(* Referral bot (src/bot.py): the in-memory ledger (data_manager.users,    *)
(* data_manager.referrals), the pending-referral store, the membership     *)
(* cache and the start / verify_join / withdraw handlers.                  *)
(*                                                                         *)
(* The handlers are asyncio coroutines.  A coroutine runs without          *)
(* interruption between two awaits, so one action of the model is the code *)
(* of one coroutine from one suspension point to the next one at which it  *)
(* reads or writes shared state:                                           *)
(*   - the body of an `async with data_manager._async_lock()` block (the   *)
(*     acquire and the release are both awaited, lines 554-561, and the    *)
(*     bodies themselves contain no await);                                *)
(*   - the code that resumes after such a block and reads the live user    *)
(*     dict (get_user returns a reference to it, line 598);                *)
(*   - one blocking storage call run in the executor (lines 346-438).      *)
(* Amounts are in units of 1.0.                                            *)
(***************************************************************************)
EXTENDS Integers, Sequences, FiniteSets, Bags, TLC

NUsers == 3
NProcs == 2
MaxEvents == 2

Users == 1..NUsers
Procs == 1..NProcs

None == 0

WELCOME_BONUS == 1
REFERRAL_BONUS == 1
MIN_WITHDRAW == 10
MAX_TRANSACTIONS == 20

Channels == {"@chA"}

VARIABLES users, referrals, pending, cache, member, txTasks, co, events, users0,
          grants, promotions, accepted,
          now, ticks, channels, channel_check_cache, calls,
          locked, work_queue, threads, entries, notices,
          INITIAL_CHANNELS

\* The state of the membership verifier taken by itself (see below).
verifier == <<now, ticks, channels, channel_check_cache, calls>>

\* The ledger lock and the thread pool taken by themselves (see below).
pool == <<locked, work_queue, threads, entries>>

vars == <<users, referrals, pending, cache, member, txTasks, co, events, users0,
          grants, promotions, accepted, verifier, pool, notices, INITIAL_CHANNELS>>


(***************************************************************************)
(* Data.                                                                   *)
(***************************************************************************)

\* A user record as get_user creates it (lines 601-613); exists = FALSE
\* stands for "user_str not in data_manager.users".
UserRecord(b, c) ==
    [exists |-> TRUE, balance |-> b, referral_count |-> c, total_earned |-> b,
     total_withdrawn |-> 0, transactions |-> <<>>,
     has_joined_channels |-> FALSE, welcome_bonus_received |-> FALSE]

NewUser == UserRecord(0, 0)

Absent == [NewUser EXCEPT !.exists = FALSE]

\* Decimal digits of a positive integer, as str(user_id) writes them.
DigitChar == <<"0", "1", "2", "3", "4", "5", "6", "7", "8", "9">>

RECURSIVE Digits(_)
Digits(n) == IF n < 10 THEN <<DigitChar[n + 1]>>
             ELSE Digits(n \div 10) \o <<DigitChar[(n % 10) + 1]>>

\* 'referral_code': f"REF{user_id}" (line 604).
ReferralCode(u) == <<"R", "E", "F">> \o Digits(u)

\* args[0].startswith('REF') (line 937); the empty sequence is "no argument".
StartsWithREF(arg) == Len(arg) >= 3 /\ SubSeq(arg, 1, 3) = <<"R", "E", "F">>

StartArgs == {<<>>} \cup {ReferralCode(u) : u \in Users}

\* Start parameters that begin with REF and are nobody's code: REF alone (a
\* proper prefix of every code), the code of user 1 with a digit after it,
\* and REF with a letter after it.
OtherStartArgs ==
    {<<"R", "E", "F">>, ReferralCode(1) \o <<"0">>, <<"R", "E", "F", "x">>}

\* float(args[0]) (line 1199), for the tokens of the model: a string of
\* decimal digits is its value, "nan" is the float that is not a number, and
\* any other token raises ValueError (ok = FALSE).  NaN stands for that float;
\* it is told apart from every amount of the model by being below all of them.
NaN == -1000000

IsDecimal(token) ==
    /\ Len(token) > 0
    /\ \A i \in 1..Len(token) : \E d \in 1..10 : DigitChar[d] = token[i]

DigitValue(ch) == (CHOOSE d \in 1..10 : DigitChar[d] = ch) - 1

RECURSIVE DecimalValue(_)
DecimalValue(token) ==
    IF Len(token) = 0 THEN 0
    ELSE 10 * DecimalValue(SubSeq(token, 1, Len(token) - 1))
         + DigitValue(token[Len(token)])

float(token) ==
    IF IsDecimal(token) THEN [ok |-> TRUE, value |-> DecimalValue(token)]
    ELSE IF token = <<"n", "a", "n">> THEN [ok |-> TRUE, value |-> NaN]
    ELSE [ok |-> FALSE, value |-> 0]

\* Comparison and arithmetic of floats: every comparison with NaN is false,
\* every sum or difference with NaN is NaN.
FloatLt(a, b) == a # NaN /\ b # NaN /\ a < b

FloatAdd(a, b) == IF a = NaN \/ b = NaN THEN NaN ELSE a + b

FloatSub(a, b) == IF a = NaN \/ b = NaN THEN NaN ELSE a - b

\* context.args of a /withdraw message: the amounts one below the minimum and
\* at the minimum, each with a method.
WithdrawArgs ==
    {<<Digits(MIN_WITHDRAW - 1), "upi">>, <<Digits(MIN_WITHDRAW), "upi">>}

\* Further messages: no argument, no method, a token that is not a number,
\* and the token "nan".
OtherWithdrawArgs ==
    {<<>>, <<Digits(MIN_WITHDRAW)>>, <<<<"a", "b", "c">>, "upi">>,
     <<<<"n", "a", "n">>, "upi">>}

\* a is a prefix of b.
IsPrefix(a, b) == Len(a) <= Len(b) /\ SubSeq(b, 1, Len(a)) = a

\* The scan matching a code by prefix, in either direction.
FindReferrer_ByPrefix(code) ==
    LET hits == {u \in Users : /\ users[u].exists
                               /\ \/ IsPrefix(code, ReferralCode(u))
                                  \/ IsPrefix(ReferralCode(u), code)}
    IN  IF hits = {} THEN None ELSE CHOOSE u \in hits : TRUE

\* The scan of lines 943-946: the first user whose stored code equals the
\* presented one (codes are unique, so the first is the only one).
FindReferrer(code) ==
    LET hits == {u \in Users : users[u].exists /\ ReferralCode(u) = code}
    IN  IF hits = {} THEN None ELSE CHOOSE u \in hits : TRUE

\* UserManager.is_referred (lines 659-662).
is_referred(u) == referrals[u] # None

\* The dict get_user returns: the stored one, or the one it creates.
Ensure(us, u) == IF us[u].exists THEN us ELSE [us EXCEPT ![u] = NewUser]

\* Local variables of an idle handler slot.  source and failed record how
\* the handler's membership check ended: where its result came from ("cache",
\* line 776; "probes", line 816; "timeout", lines 980 / 1100; "none" before)
\* and the channels reported for want of an answer; raised says that the
\* handler is in its "except Exception" clause (lines 984 / 1103).
\* not_joined, keyboard and next are the argument, the keyboard and the loop
\* position of show_join_buttons, platform what the platform does with the
\* requests for the invite link of each channel of not_joined.
Idle == [pc |-> "idle", handler |-> "none", user |-> None, arg |-> <<>>,
         referrer_found |-> None, pending_referrer |-> None,
         source |-> "none", failed |-> {}, raised |-> FALSE,
         not_joined |-> <<>>, platform |-> <<>>, keyboard |-> <<>>, next |-> 1,
         has_joined |-> FALSE, welcome_bonus_given |-> FALSE,
         new_balance |-> 0, new_total |-> 0, new_count |-> 0, amount |-> 0]

Quiescent == (\A p \in Procs : co[p].pc = "idle") /\ txTasks = EmptyBag

\* No call of check_channel_membership under way, nothing cached (line 69).
IdleCall == [pc |-> "idle", user |-> None, current_time |-> 0, tasks |-> <<>>,
             source |-> "none", result |-> [has_joined |-> FALSE, not_joined |-> <<>>]]

VerifierAtRest ==
    /\ now = 0
    /\ ticks = 0
    /\ channel_check_cache = <<>>
    /\ calls = [p \in Procs |-> IdleCall]

\* The coroutines that enter data_manager._async_lock() in the model of the
\* lock below; none has done so, the lock is free and the pool has no job.
MaxCoroutines == 6

Coroutines == 1..MaxCoroutines

PoolAtRest ==
    /\ locked = FALSE
    /\ work_queue = <<>>
    /\ threads = {}
    /\ entries = [c \in Coroutines |-> "idle"]

(***************************************************************************)
(* Initial state: the store loaded at start-up (lines 458-464).  User 1    *)
(* is an account that can withdraw, user 2 a fresh account, the last user  *)
(* has never talked to the bot.  No referral is completed yet.  The        *)
(* pending-referral store outlives the process: it may hold an entry for   *)
(* user 2, naming user 1 or (the case the first test of add_referral is    *)
(* for) user 2 itself.  Either nobody or everybody is a channel member.    *)
(***************************************************************************)

InitUsers ==
    [u \in Users |-> IF u = 1 THEN UserRecord(MIN_WITHDRAW, 0)
                     ELSE IF u < NUsers THEN NewUser ELSE Absent]

Init ==
    /\ users = InitUsers
    /\ users0 = users
    /\ referrals = [u \in Users |-> None]
    /\ pending \in {[u \in Users |-> IF u = 2 THEN r ELSE None] : r \in {None, 1, 2}}
    /\ cache = [u \in Users |-> [valid |-> FALSE, not_joined |-> {}]]
    /\ member \in {[u \in Users |-> {}], [u \in Users |-> Channels]}
    /\ txTasks = EmptyBag
    /\ co = [p \in Procs |-> Idle]
    /\ events = 0
    /\ grants = [u \in Users |-> 0]
    /\ promotions = [u \in Users |-> 0]
    /\ accepted = [u \in Users |-> 0]
    /\ channels = <<"@chA">>
    /\ VerifierAtRest
    /\ INITIAL_CHANNELS = channels
    /\ PoolAtRest
    /\ notices = {}

(***************************************************************************)
(* Shared helpers of the handlers.                                         *)
(***************************************************************************)

\* A transaction task touches nothing but the log of its user, which no
\* handler reads: its step commutes with every handler step, and the model
\* runs it before the next handler step.
NoTask == txTasks = EmptyBag

\* Coroutine p is suspended at label and is the one to run.
At(p, label) == co[p].pc = label /\ NoTask

\* The environment acts at most MaxEvents times.
MayHappen == events < MaxEvents /\ NoTask

\* A new event is handled in the first free slot (the slots are interchangeable).
FreeSlot(p) ==
    /\ At(p, "idle")
    /\ \A q \in Procs : q < p => co[q].pc # "idle"

Goto(p, rec, label) == co' = [co EXCEPT ![p] = [rec EXCEPT !.pc = label]]

Finish(p) == co' = [co EXCEPT ![p] = Idle]

\* asyncio.create_task(UserManager.add_transaction(...)) (lines 703, 748, 1221).
Spawn(u, amount, type, desc, ref) ==
    txTasks (+) SetToBag({[user |-> u, amount |-> amount, type |-> type,
                           description |-> desc, ref |-> ref]})

\* What check_channel_membership can return for user u (lines 760-824).
\* A cached pair is returned while it is younger than CACHE_TIMEOUT (line
\* 774); whether it still is depends on the clock, so both cases are open for
\* an existing entry.  A fresh check reports the channels whose probe did not
\* answer "member"; a probe that times out or raises answers False (lines
\* 842-850), so any channel may be reported.
FreshOutcomes(u) ==
    {[source |-> "probes", not_joined |-> s] :
        s \in {t \in SUBSET Channels : (Channels \ member[u]) \subseteq t}}

CheckOutcomes(u) ==
    IF Channels = {} THEN {[source |-> "none", not_joined |-> {}]}
    ELSE IF cache[u].valid
         THEN {[source |-> "cache", not_joined |-> cache[u].not_joined]}
              \cup FreshOutcomes(u)
         ELSE FreshOutcomes(u)

\* A handler that goes on to the ledger whatever the check returned.
TakesJoinedBranch_Always(handler, not_joined) == TRUE

\* verify_join_callback without the test of line 1080.
TakesJoinedBranch_VerifyAlways(handler, not_joined) ==
    IF handler = "start" THEN not_joined = {} ELSE TRUE

\* The branch after the membership check: start_command tests
\* "not has_joined and not_joined" (line 960), verify_join_callback tests
\* has_joined (line 1080); has_joined is len(not_joined) == 0 (line 810).
TakesJoinedBranch(handler, not_joined) ==
    LET has_joined == (not_joined = {})
    IN  IF handler = "start" THEN ~(~has_joined /\ not_joined # {})
        ELSE has_joined

\* Lines 954-962 / 1074-1080 and 980-982 / 1100-1101, for a handler whose
\* locals are rec: the membership check and the branch on its result, or the
\* 5 s wait_for timeout, which goes to the main menu.
Membership(p, rec) ==
    \/ \E o \in CheckOutcomes(rec.user) :
          /\ cache' = IF o.source = "probes"
                      THEN [cache EXCEPT ![rec.user] =
                               [valid |-> TRUE, not_joined |-> o.not_joined]]
                      ELSE cache
          /\ Goto(p, [rec EXCEPT !.has_joined = (o.not_joined = {}),
                                 !.source = o.source,
                                 !.failed = IF o.source = "probes"
                                            THEN o.not_joined \cap member[rec.user]
                                            ELSE {}],
                  IF TakesJoinedBranch(rec.handler, o.not_joined)
                  THEN "mark_joined" ELSE "join")
    \/ /\ Channels # {}
       /\ cache' = cache
       /\ Goto(p, [rec EXCEPT !.source = "timeout"], "menu")

(***************************************************************************)
(* start_command (lines 923-989).                                          *)
(***************************************************************************)

\* A start event arrives; line 933: the body of get_user creates the account.
StartCommand(p, u, arg) ==
    /\ FreeSlot(p)
    /\ events < MaxEvents
    /\ events' = events + 1
    /\ users' = Ensure(users, u)
    /\ Goto(p, [Idle EXCEPT !.handler = "start", !.user = u, !.arg = arg],
            IF StartsWithREF(arg) THEN "st_is_referred" ELSE "check")
    /\ UNCHANGED <<INITIAL_CHANNELS, verifier, pool, notices, referrals, pending, cache, member, txTasks, users0,
                   grants, promotions, accepted>>

\* Line 940, read when the coroutine resumes after get_user.
StartIsReferred(p) ==
    /\ At(p, "st_is_referred")
    /\ Goto(p, co[p], IF ~is_referred(co[p].user) THEN "st_scan" ELSE "check")
    /\ UNCHANGED <<INITIAL_CHANNELS, verifier, pool, notices, users, referrals, pending, cache, member, txTasks, events,
                   users0, grants, promotions, accepted>>

\* Line 948 without "referrer_found != user.id".
ClaimsFor_NoSelfTest(referrer_found, u) == referrer_found # None

\* Line 948: the claim is made for a found referrer other than the user.
ClaimsFor(referrer_found, u) == referrer_found # None /\ referrer_found # u

\* Lines 942-948: the scan for the code's owner, under the lock.
StartScan(p) ==
    /\ At(p, "st_scan")
    /\ LET found == FindReferrer(co[p].arg)
       IN  Goto(p, [co[p] EXCEPT !.referrer_found = found],
                IF ClaimsFor(found, co[p].user) THEN "st_get_pending" ELSE "check")
    /\ UNCHANGED <<INITIAL_CHANNELS, verifier, pool, notices, users, referrals, pending, cache, member, txTasks, events,
                   users0, grants, promotions, accepted>>

\* start_command without the test of line 950: the claim is always saved.
StartGetPending_Overwrite(p) ==
    /\ At(p, "st_get_pending")
    /\ Goto(p, co[p], "st_add_pending")
    /\ UNCHANGED <<INITIAL_CHANNELS, verifier, pool, notices, users, referrals, pending, cache, member, txTasks, events,
                   users0, grants, promotions, accepted>>

\* Lines 949-950: the stored pending referrer is read in the executor.
StartGetPending(p) ==
    /\ At(p, "st_get_pending")
    /\ Goto(p, co[p], IF pending[co[p].user] = None THEN "st_add_pending" ELSE "check")
    /\ UNCHANGED <<INITIAL_CHANNELS, verifier, pool, notices, users, referrals, pending, cache, member, txTasks, events,
                   users0, grants, promotions, accepted>>

\* _save_pending_referral_sync (lines 355-376): an upsert keyed by referred_id.
SavePending(store, referrer_id, referred_id) ==
    [store EXCEPT ![referred_id] = referrer_id]

\* Line 951.
StartAddPending(p) ==
    /\ At(p, "st_add_pending")
    /\ pending' = SavePending(pending, co[p].referrer_found, co[p].user)
    /\ Goto(p, co[p], "check")
    /\ UNCHANGED <<INITIAL_CHANNELS, verifier, pool, notices, users, referrals, cache, member, txTasks, events, users0,
                   grants, promotions, accepted>>

\* Lines 954-962, 980-982.
StartCheck(p) ==
    /\ At(p, "check")
    /\ Membership(p, co[p])
    /\ UNCHANGED <<INITIAL_CHANNELS, verifier, pool, notices, users, referrals, pending, member, txTasks, events, users0,
                   grants, promotions, accepted>>

(***************************************************************************)
(* verify_join_callback (lines 1065-1105).                                 *)
(***************************************************************************)

\* A verify event arrives; lines 1074-1080, 1097-1101.
VerifyJoinCallback(p, u) ==
    /\ FreeSlot(p)
    /\ events < MaxEvents
    /\ events' = events + 1
    /\ Membership(p, [Idle EXCEPT !.handler = "verify", !.user = u])
    /\ UNCHANGED <<INITIAL_CHANNELS, verifier, pool, notices, users, referrals, pending, member, txTasks, users0,
                   grants, promotions, accepted>>

(***************************************************************************)
(* The all-joined branch, the same code in both handlers                   *)
(* (lines 963-978 and 1081-1096).                                          *)
(***************************************************************************)

\* update_user (lines 623-632): nothing happens for an unknown user.
UpdateUser(us, u, updates) ==
    IF us[u].exists
    THEN [us EXCEPT ![u] = [f \in DOMAIN us[u] |->
                               IF f \in DOMAIN updates THEN updates[f] ELSE us[u][f]]]
    ELSE us

\* The all-joined branch with the promotion placed before the bonus.
MarkJoined_PromoteFirst(p) ==
    /\ At(p, "mark_joined")
    /\ users' = UpdateUser(users, co[p].user, [has_joined_channels |-> TRUE])
    /\ Goto(p, co[p], "get_pending")
    /\ UNCHANGED <<INITIAL_CHANNELS, verifier, pool, notices, referrals, pending, cache, member, txTasks, events, users0,
                   grants, promotions, accepted>>

\* Lines 963 / 1081.
MarkJoined(p) ==
    /\ At(p, "mark_joined")
    /\ users' = UpdateUser(users, co[p].user, [has_joined_channels |-> TRUE])
    /\ Goto(p, co[p], "wb_get_user")
    /\ UNCHANGED <<INITIAL_CHANNELS, verifier, pool, notices, referrals, pending, cache, member, txTasks, events, users0,
                   grants, promotions, accepted>>

\* give_welcome_bonus, line 734: the body of get_user.
WelcomeGetUser(p) ==
    /\ At(p, "wb_get_user")
    /\ users' = Ensure(users, co[p].user)
    /\ Goto(p, co[p], "wb_check")
    /\ UNCHANGED <<INITIAL_CHANNELS, verifier, pool, notices, referrals, pending, cache, member, txTasks, events, users0,
                   grants, promotions, accepted>>

\* Lines 736-745: the flag and the balance are read from the live dict when
\* the coroutine resumes; update_user is then awaited with the values read.
WelcomeCheck(p) ==
    /\ At(p, "wb_check")
    /\ LET user == users[co[p].user]
       IN  IF user.welcome_bonus_received
           THEN Goto(p, co[p], "get_pending")
           ELSE Goto(p, [co[p] EXCEPT !.new_balance = user.balance + WELCOME_BONUS,
                                      !.new_total = user.total_earned + WELCOME_BONUS],
                     "wb_update")
    /\ UNCHANGED <<INITIAL_CHANNELS, verifier, pool, notices, users, referrals, pending, cache, member, txTasks, events,
                   users0, grants, promotions, accepted>>

\* Lines 741-758: the body of update_user, then the transaction task is
\* created and True is returned.
WelcomeUpdate(p) ==
    /\ At(p, "wb_update")
    /\ users' = UpdateUser(users, co[p].user,
                           [balance |-> co[p].new_balance,
                            welcome_bonus_received |-> TRUE,
                            total_earned |-> co[p].new_total])
    /\ txTasks' = Spawn(co[p].user, WELCOME_BONUS, "credit", "Welcome bonus", None)
    /\ grants' = [grants EXCEPT ![co[p].user] = @ + 1]
    /\ Goto(p, [co[p] EXCEPT !.welcome_bonus_given = TRUE,
                             !.new_balance = 0, !.new_total = 0], "get_pending")
    /\ UNCHANGED <<INITIAL_CHANNELS, verifier, pool, notices, referrals, pending, cache, member, events, users0,
                   promotions, accepted>>

\* Lines 969 / 1087: the stored pending referrer is read in the executor.
GetPending(p) ==
    /\ At(p, "get_pending")
    /\ LET r == pending[co[p].user]
       IN  Goto(p, [co[p] EXCEPT !.pending_referrer = r],
                IF r # None THEN "is_referred" ELSE "menu")
    /\ UNCHANGED <<INITIAL_CHANNELS, verifier, pool, notices, users, referrals, pending, cache, member, txTasks, events,
                   users0, grants, promotions, accepted>>

\* Lines 970 / 1088, read when the coroutine resumes, and the first test of
\* add_referral (lines 675-676).
PromoteIsReferred(p) ==
    /\ At(p, "is_referred")
    /\ Goto(p, co[p],
            IF is_referred(co[p].user) THEN "menu"
            ELSE IF co[p].pending_referrer = co[p].user THEN "remove_pending"
            ELSE "ar_lock")
    /\ UNCHANGED <<INITIAL_CHANNELS, verifier, pool, notices, users, referrals, pending, cache, member, txTasks, events,
                   users0, grants, promotions, accepted>>

(***************************************************************************)
(* UserManager.add_referral (lines 672-713), called at lines 971 / 1089.   *)
(***************************************************************************)

\* add_referral without the test of line 682: the referral is written and
\* the referrer credited whether or not the user is already referred.
AddReferralLock_NoTest(p) ==
    /\ At(p, "ar_lock")
    /\ referrals' = [referrals EXCEPT ![co[p].user] = co[p].pending_referrer]
    /\ Goto(p, co[p], "ar_get_user")
    /\ UNCHANGED <<INITIAL_CHANNELS, verifier, pool, notices, users, pending, cache, member, txTasks, events, users0,
                   grants, promotions, accepted>>

\* Lines 681-690: the test for an existing referral and the write are one
\* lock body.
AddReferralLock(p) ==
    /\ At(p, "ar_lock")
    /\ IF referrals[co[p].user] # None
       THEN /\ referrals' = referrals
            /\ Goto(p, co[p], "remove_pending")
       ELSE /\ referrals' = [referrals EXCEPT ![co[p].user] = co[p].pending_referrer]
            /\ Goto(p, co[p], "ar_get_user")
    /\ UNCHANGED <<INITIAL_CHANNELS, verifier, pool, notices, users, pending, cache, member, txTasks, events, users0,
                   grants, promotions, accepted>>

\* Line 693: the body of get_user for the referrer.
AddReferralGetUser(p) ==
    /\ At(p, "ar_get_user")
    /\ users' = Ensure(users, co[p].pending_referrer)
    /\ Goto(p, co[p], "ar_read")
    /\ UNCHANGED <<INITIAL_CHANNELS, verifier, pool, notices, referrals, pending, cache, member, txTasks, events, users0,
                   grants, promotions, accepted>>

\* Lines 694-700: the referrer's figures are read from the live dict when the
\* coroutine resumes; update_user is then awaited with the values read.
AddReferralRead(p) ==
    /\ At(p, "ar_read")
    /\ LET referrer == users[co[p].pending_referrer]
       IN  Goto(p, [co[p] EXCEPT !.new_balance = referrer.balance + REFERRAL_BONUS,
                                 !.new_count = referrer.referral_count + 1,
                                 !.new_total = referrer.total_earned + REFERRAL_BONUS],
                "ar_update")
    /\ UNCHANGED <<INITIAL_CHANNELS, verifier, pool, notices, users, referrals, pending, cache, member, txTasks, events,
                   users0, grants, promotions, accepted>>

\* Lines 696-713: the body of update_user, then the transaction task is
\* created and True is returned.
AddReferralUpdate(p) ==
    /\ At(p, "ar_update")
    /\ users' = UpdateUser(users, co[p].pending_referrer,
                           [balance |-> co[p].new_balance,
                            referral_count |-> co[p].new_count,
                            total_earned |-> co[p].new_total])
    /\ txTasks' = Spawn(co[p].pending_referrer, REFERRAL_BONUS, "credit",
                        "Referral bonus for user", co[p].user)
    /\ promotions' = [promotions EXCEPT ![co[p].user] = @ + 1]
    /\ Goto(p, [co[p] EXCEPT !.new_balance = 0, !.new_count = 0, !.new_total = 0],
            "remove_pending")
    /\ UNCHANGED <<INITIAL_CHANNELS, verifier, pool, notices, referrals, pending, cache, member, events, users0,
                   grants, accepted>>

\* _remove_pending_referral_sync (lines 390-403).
RemovePendingEntry(store, referred_id) == [store EXCEPT ![referred_id] = None]

\* remove_pending_referral deleting the completed referral as well.
RemovePending_DropsReferral(p) ==
    /\ At(p, "remove_pending")
    /\ pending' = RemovePendingEntry(pending, co[p].user)
    /\ referrals' = [referrals EXCEPT ![co[p].user] = None]
    /\ Goto(p, co[p], "menu")
    /\ UNCHANGED <<INITIAL_CHANNELS, verifier, pool, notices, users, cache, member, txTasks, events, users0,
                   grants, promotions, accepted>>

\* Lines 972 / 1090.
RemovePending(p) ==
    /\ At(p, "remove_pending")
    /\ pending' = RemovePendingEntry(pending, co[p].user)
    /\ Goto(p, co[p], "menu")
    /\ UNCHANGED <<INITIAL_CHANNELS, verifier, pool, notices, users, referrals, cache, member, txTasks, events, users0,
                   grants, promotions, accepted>>

(***************************************************************************)
(* The responses.                                                          *)
(***************************************************************************)

\* show_main_menu (lines 1107-1145): get_user, then the menu is sent.
ShowMainMenu(p) ==
    /\ At(p, "menu")
    /\ users' = Ensure(users, co[p].user)
    /\ Finish(p)
    /\ UNCHANGED <<INITIAL_CHANNELS, verifier, pool, notices, referrals, pending, cache, member, txTasks, events, users0,
                   grants, promotions, accepted>>

\* show_join_buttons (lines 1002-1063): the prompt is sent when at least one
\* invite link was resolved (line 1031).  When none was (the 3 s wait_for of
\* line 1019 expired on the first channel, which ends the loop at line 1028,
\* or get_invite_link returned None, line 917), or when sending the prompt
\* raised (line 1061), the main menu is shown instead (lines 1059, 1063).
ShowJoinButtons(p) ==
    /\ At(p, "join")
    /\ \/ Finish(p)
       \/ Goto(p, co[p], "menu")
    /\ UNCHANGED <<INITIAL_CHANNELS, verifier, pool, notices, users, referrals, pending, cache, member, txTasks, events,
                   users0, grants, promotions, accepted>>

(***************************************************************************)
(* withdraw_command (lines 1180-1256).                                     *)
(***************************************************************************)

\* The administrators (line 43): one, who is not among the users of the model.
ADMIN_IDS == {NUsers + 1}

\* A message sent with bot.send_message to somebody other than the sender of
\* the event being handled (lines 995 and 1240).
Notice(to, kind, about) == [to |-> to, kind |-> kind, about |-> about]

\* The test of line 1202 with "<=" for "<".
BelowMinimum_Inclusive(amount) == ~FloatLt(MIN_WITHDRAW, amount)

\* Line 1202.
BelowMinimum(amount) == FloatLt(amount, MIN_WITHDRAW)

\* The message is answered at once with the usage (lines 1189-1196),
\* "Invalid amount" (lines 1251-1252) or "Min" (lines 1202-1204).
AnsweredAtOnce(args) ==
    \/ Len(args) < 2
    \/ ~float(args[1]).ok
    \/ BelowMinimum(float(args[1]).value)

\* A withdraw event arrives; lines 1188-1206: a message that is not answered
\* at once goes on to the body of get_user.
WithdrawCommand(p, u, args) ==
    /\ FreeSlot(p)
    /\ events < MaxEvents
    /\ events' = events + 1
    /\ IF AnsweredAtOnce(args)
       THEN UNCHANGED <<users, co>>
       ELSE /\ users' = Ensure(users, u)
            /\ Goto(p, [Idle EXCEPT !.handler = "withdraw", !.user = u,
                                    !.amount = float(args[1]).value], "wd_check")
    /\ UNCHANGED <<INITIAL_CHANNELS, verifier, pool, notices, referrals, pending, cache, member, txTasks, users0,
                   grants, promotions, accepted>>

\* Lines 1208-1213: the balance is read from the live dict when the coroutine
\* resumes; update_user is then awaited with the values computed.
WithdrawCheck(p) ==
    /\ At(p, "wd_check")
    /\ LET user_data == users[co[p].user]
       IN  IF FloatLt(user_data.balance, co[p].amount)
           THEN Finish(p)
           ELSE Goto(p, [co[p] EXCEPT
                            !.new_balance = FloatSub(user_data.balance, co[p].amount),
                            !.new_total = FloatAdd(user_data.total_withdrawn,
                                                   co[p].amount)],
                     "wd_update")
    /\ UNCHANGED <<INITIAL_CHANNELS, verifier, pool, notices, users, referrals, pending, cache, member, txTasks, events,
                   users0, grants, promotions, accepted>>

\* withdraw_command writing the balance but not total_withdrawn.
WithdrawUpdate_KeepsTotal(p) ==
    /\ At(p, "wd_update")
    /\ users' = UpdateUser(users, co[p].user, [balance |-> co[p].new_balance])
    /\ txTasks' = Spawn(co[p].user, FloatSub(0, co[p].amount), "withdrawal",
                        "Withdrawal via", None)
    /\ accepted' = [accepted EXCEPT ![co[p].user] = FloatAdd(@, co[p].amount)]
    /\ notices' = notices \cup {Notice(a, "withdrawal", co[p].user) : a \in ADMIN_IDS}
    /\ Finish(p)
    /\ UNCHANGED <<INITIAL_CHANNELS, verifier, pool, referrals, pending, cache, member, events, users0,
                   grants, promotions>>

\* Lines 1215-1249: the body of update_user, then the transaction task is
\* created, the admins are notified and "Withdrawal Submitted" is sent.
WithdrawUpdate(p) ==
    /\ At(p, "wd_update")
    /\ users' = UpdateUser(users, co[p].user,
                           [balance |-> co[p].new_balance,
                            total_withdrawn |-> co[p].new_total])
    /\ txTasks' = Spawn(co[p].user, FloatSub(0, co[p].amount), "withdrawal",
                        "Withdrawal via", None)
    /\ accepted' = [accepted EXCEPT ![co[p].user] = FloatAdd(@, co[p].amount)]
    /\ notices' = notices \cup {Notice(a, "withdrawal", co[p].user) : a \in ADMIN_IDS}
    /\ Finish(p)
    /\ UNCHANGED <<INITIAL_CHANNELS, verifier, pool, referrals, pending, cache, member, events, users0,
                   grants, promotions>>

(***************************************************************************)
(* UserManager.add_transaction (lines 634-656), run as its own task.       *)
(***************************************************************************)

\* add_transaction keeping the first MAX_TRANSACTIONS entries of the log.
AppendTransaction_KeepsOldest(log, t) ==
    LET tx == [id |-> Len(log) + 1, amount |-> t.amount, type |-> t.type,
               description |-> t.description, ref |-> t.ref]
        all == log \o <<tx>>
    IN  IF Len(all) > MAX_TRANSACTIONS
        THEN SubSeq(all, 1, MAX_TRANSACTIONS)
        ELSE all

\* Lines 639-654: the id is the current length plus one; the log keeps its
\* last MAX_TRANSACTIONS entries.
AppendTransaction(log, t) ==
    LET tx == [id |-> Len(log) + 1, amount |-> t.amount, type |-> t.type,
               description |-> t.description, ref |-> t.ref]
        all == log \o <<tx>>
    IN  IF Len(all) > MAX_TRANSACTIONS
        THEN SubSeq(all, Len(all) - MAX_TRANSACTIONS + 1, Len(all))
        ELSE all

\* The task's get_user finds the account (it was created before the task),
\* the append changes the live dict in place, and the final update_user
\* writes that dict onto itself.
AddTransaction(t) ==
    /\ BagIn(t, txTasks)
    /\ txTasks' = txTasks (-) SetToBag({t})
    /\ users' = [Ensure(users, t.user) EXCEPT
                    ![t.user].transactions = AppendTransaction(@, t)]
    /\ UNCHANGED <<INITIAL_CHANNELS, verifier, pool, notices, referrals, pending, cache, member, co, events, users0,
                   grants, promotions, accepted>>

(***************************************************************************)
(* The environment.                                                        *)
(***************************************************************************)

\* A user joins or leaves a channel on the platform.
JoinChannel(u, c) ==
    /\ c \notin member[u]
    /\ MayHappen
    /\ events' = events + 1
    /\ member' = [member EXCEPT ![u] = @ \cup {c}]
    /\ UNCHANGED <<INITIAL_CHANNELS, verifier, pool, notices, users, referrals, pending, cache, txTasks, co, users0,
                   grants, promotions, accepted>>

LeaveChannel(u, c) ==
    /\ c \in member[u]
    /\ MayHappen
    /\ events' = events + 1
    /\ member' = [member EXCEPT ![u] = @ \ {c}]
    /\ UNCHANGED <<INITIAL_CHANNELS, verifier, pool, notices, users, referrals, pending, cache, txTasks, co, users0,
                   grants, promotions, accepted>>

\* The store drops a pending entry a week after it was written (line 125).
PendingExpire(u) ==
    /\ pending[u] # None
    /\ MayHappen
    /\ events' = events + 1
    /\ pending' = RemovePendingEntry(pending, u)
    /\ UNCHANGED <<INITIAL_CHANNELS, verifier, pool, notices, users, referrals, cache, member, txTasks, co, users0,
                   grants, promotions, accepted>>

Next ==
    \/ \E p \in Procs, u \in Users, arg \in StartArgs : StartCommand(p, u, arg)
    \/ \E p \in Procs : StartIsReferred(p)
    \/ \E p \in Procs : StartScan(p)
    \/ \E p \in Procs : StartGetPending(p)
    \/ \E p \in Procs : StartAddPending(p)
    \/ \E p \in Procs : StartCheck(p)
    \/ \E p \in Procs, u \in Users : VerifyJoinCallback(p, u)
    \/ \E p \in Procs : MarkJoined(p)
    \/ \E p \in Procs : WelcomeGetUser(p)
    \/ \E p \in Procs : WelcomeCheck(p)
    \/ \E p \in Procs : WelcomeUpdate(p)
    \/ \E p \in Procs : GetPending(p)
    \/ \E p \in Procs : PromoteIsReferred(p)
    \/ \E p \in Procs : AddReferralLock(p)
    \/ \E p \in Procs : AddReferralGetUser(p)
    \/ \E p \in Procs : AddReferralRead(p)
    \/ \E p \in Procs : AddReferralUpdate(p)
    \/ \E p \in Procs : RemovePending(p)
    \/ \E p \in Procs : ShowMainMenu(p)
    \/ \E p \in Procs : ShowJoinButtons(p)
    \/ \E p \in Procs, u \in Users, args \in WithdrawArgs : WithdrawCommand(p, u, args)
    \/ \E p \in Procs : WithdrawCheck(p)
    \/ \E p \in Procs : WithdrawUpdate(p)
    \/ \E u \in Users, c \in Channels : JoinChannel(u, c)
    \/ \E u \in Users, c \in Channels : LeaveChannel(u, c)
    \/ \E u \in Users : PendingExpire(u)
    \/ \E t \in BagToSet(txTasks) : AddTransaction(t)

Spec == Init /\ [][Next]_vars

\* The same program when every event arrives after the handler of the
\* previous one has finished.
Sequential == Cardinality({p \in Procs : co[p].pc # "idle"}) <= 1

NextSequential == Next /\ Sequential'

SpecSequential == Init /\ [][NextSequential]_vars

\* The event loop runs every task it was given (asyncio.create_task).
SpecSequentialFair ==
    SpecSequential /\ WF_vars(\E t \in BagToSet(txTasks) : AddTransaction(t))

\* A step of the handler in slot p after its event has arrived: the event
\* loop resumes every coroutine whose awaited call has completed.
Proceeds(p) ==
    \/ StartIsReferred(p)
    \/ StartScan(p)
    \/ StartGetPending(p)
    \/ StartAddPending(p)
    \/ StartCheck(p)
    \/ MarkJoined(p)
    \/ WelcomeGetUser(p)
    \/ WelcomeCheck(p)
    \/ WelcomeUpdate(p)
    \/ GetPending(p)
    \/ PromoteIsReferred(p)
    \/ AddReferralLock(p)
    \/ AddReferralGetUser(p)
    \/ AddReferralRead(p)
    \/ AddReferralUpdate(p)
    \/ RemovePending(p)
    \/ ShowMainMenu(p)
    \/ ShowJoinButtons(p)
    \/ WithdrawCheck(p)
    \/ WithdrawUpdate(p)

\* The sequential program with every handler and every task run to its end.
SpecSequentialLive ==
    SpecSequentialFair /\ \A p \in Procs : WF_vars(Proceeds(p))

\* notify_referrer_completed (lines 991-1000).  No handler calls it: the
\* function has no call site in the program, and it is in no next-state
\* relation of the model.
NotifyReferrerCompleted(referrer_id, referred_user) ==
    /\ notices' = notices \cup {Notice(referrer_id, "referral", referred_user)}
    /\ UNCHANGED <<INITIAL_CHANNELS, verifier, pool, users, referrals, pending, cache, member, txTasks,
                   co, events, users0, grants, promotions, accepted>>

\* start_command alone, for every start parameter of the model, each event
\* arriving after the handler of the previous one has finished.
NextStart ==
    \/ /\ \A q \in Procs : co[q].pc = "idle"
       /\ \E p \in Procs, u \in Users, arg \in StartArgs \cup OtherStartArgs :
             StartCommand(p, u, arg)
    \/ \E p \in Procs : StartIsReferred(p)
    \/ \E p \in Procs : StartScan(p)
    \/ \E p \in Procs : StartGetPending(p)
    \/ \E p \in Procs : StartAddPending(p)
    \/ \E p \in Procs : StartCheck(p)
    \/ \E p \in Procs : MarkJoined(p)
    \/ \E p \in Procs : WelcomeGetUser(p)
    \/ \E p \in Procs : WelcomeCheck(p)
    \/ \E p \in Procs : WelcomeUpdate(p)
    \/ \E p \in Procs : GetPending(p)
    \/ \E p \in Procs : PromoteIsReferred(p)
    \/ \E p \in Procs : AddReferralLock(p)
    \/ \E p \in Procs : AddReferralGetUser(p)
    \/ \E p \in Procs : AddReferralRead(p)
    \/ \E p \in Procs : AddReferralUpdate(p)
    \/ \E p \in Procs : RemovePending(p)
    \/ \E p \in Procs : ShowMainMenu(p)
    \/ \E p \in Procs : ShowJoinButtons(p)
    \/ \E t \in BagToSet(txTasks) : AddTransaction(t)

SpecStart == Init /\ [][NextStart]_vars

(***************************************************************************)
(* The lock of the ledger.  data_manager._lock is a threading.Lock (line   *)
(* 447); a coroutine enters it through _async_lock (lines 548-563), which  *)
(* hands self._lock.acquire, and on exit self._lock.release, to the shared *)
(* ThreadPoolExecutor (line 66) and awaits the result.  A job waits in the *)
(* executor's queue until a worker thread is free; the thread that runs    *)
(* acquire stays in it until the lock is free.  The coroutines are start   *)
(* events without parameter from users outside the channels: one lock      *)
(* section (get_user, line 933), then the membership check and the join    *)
(* prompt.                                                                 *)
(***************************************************************************)

\* ThreadPoolExecutor(max_workers=5), line 66.
MAX_WORKERS == 5

\* The user whose event coroutine c handles.
Sender(c) == ((c - 1) % NUsers) + 1

Job(op, c) == [op |-> op, by |-> c]

\* A start event arrives: start_command calls get_user, whose "async with"
\* submits acquire (lines 933, 596, 556).
Enter(c) ==
    /\ entries[c] = "idle"
    /\ \A d \in Coroutines : d < c => entries[d] # "idle"
    /\ entries' = [entries EXCEPT ![c] = "acquire"]
    /\ work_queue' = Append(work_queue, Job("acquire", c))
    /\ UNCHANGED <<locked, threads, notices, INITIAL_CHANNELS, verifier, users, referrals, pending,
                   cache, member, txTasks, co, events, users0, grants,
                   promotions, accepted>>

\* A free worker thread takes the oldest job of the queue.
TakeJob ==
    /\ work_queue # <<>>
    /\ Cardinality(threads) < MAX_WORKERS
    /\ threads' = threads \cup {Head(work_queue)}
    /\ work_queue' = Tail(work_queue)
    /\ UNCHANGED <<locked, entries, notices, INITIAL_CHANNELS, verifier, users, referrals, pending,
                   cache, member, txTasks, co, events, users0, grants,
                   promotions, accepted>>

\* self._lock.acquire in a worker thread (line 556): it returns when the lock
\* is free, and takes it.
RunAcquire(c) ==
    /\ Job("acquire", c) \in threads
    /\ ~locked
    /\ locked' = TRUE
    /\ threads' = threads \ {Job("acquire", c)}
    /\ entries' = [entries EXCEPT ![c] = "body"]
    /\ UNCHANGED <<work_queue, notices, INITIAL_CHANNELS, verifier, users, referrals, pending,
                   cache, member, txTasks, co, events, users0, grants,
                   promotions, accepted>>

\* The coroutine is resumed inside the lock: the body of get_user (lines
\* 597-620), then __aexit__ submits release (line 561).
LockBody(c) ==
    /\ entries[c] = "body"
    /\ users' = Ensure(users, Sender(c))
    /\ entries' = [entries EXCEPT ![c] = "release"]
    /\ work_queue' = Append(work_queue, Job("release", c))
    /\ UNCHANGED <<locked, threads, notices, INITIAL_CHANNELS, verifier, referrals, pending,
                   cache, member, txTasks, co, events, users0, grants,
                   promotions, accepted>>

\* self._lock.release in a worker thread (line 561).
RunRelease(c) ==
    /\ Job("release", c) \in threads
    /\ locked' = FALSE
    /\ threads' = threads \ {Job("release", c)}
    /\ entries' = [entries EXCEPT ![c] = "respond"]
    /\ UNCHANGED <<work_queue, notices, INITIAL_CHANNELS, verifier, users, referrals, pending,
                   cache, member, txTasks, co, events, users0, grants,
                   promotions, accepted>>

\* The rest of start_command for a user outside the channels: the check
\* reports the channels and the join prompt is sent (lines 954-962).
Respond(c) ==
    /\ entries[c] = "respond"
    /\ entries' = [entries EXCEPT ![c] = "done"]
    /\ notices' = notices \cup {Notice(Sender(c), "join", c)}
    /\ UNCHANGED <<locked, work_queue, threads, INITIAL_CHANNELS, verifier, users, referrals,
                   pending, cache, member, txTasks, co, events, users0, grants,
                   promotions, accepted>>

InitPool ==
    /\ users = InitUsers
    /\ users0 = users
    /\ referrals = [u \in Users |-> None]
    /\ pending = [u \in Users |-> None]
    /\ cache = [u \in Users |-> [valid |-> FALSE, not_joined |-> {}]]
    /\ member = [u \in Users |-> {}]
    /\ txTasks = EmptyBag
    /\ co = [p \in Procs |-> Idle]
    /\ events = 0
    /\ grants = [u \in Users |-> 0]
    /\ promotions = [u \in Users |-> 0]
    /\ accepted = [u \in Users |-> 0]
    /\ channels = <<"@chA">>
    /\ VerifierAtRest
    /\ INITIAL_CHANNELS = channels
    /\ PoolAtRest
    /\ notices = {}

NextPool ==
    \/ \E c \in Coroutines : Enter(c)
    \/ TakeJob
    \/ \E c \in Coroutines : RunAcquire(c)
    \/ \E c \in Coroutines : LockBody(c)
    \/ \E c \in Coroutines : RunRelease(c)
    \/ \E c \in Coroutines : Respond(c)

SpecPool == InitPool /\ [][NextPool]_vars

\* Fair scheduling: the event loop resumes every coroutine whose awaited call
\* has completed, a free worker thread takes a queued job, every worker
\* thread runs, and a thread that finds the lock free again and again gets
\* it.
SpecPoolFair ==
    /\ SpecPool
    /\ WF_vars(TakeJob)
    /\ \A c \in Coroutines :
          /\ SF_vars(RunAcquire(c))
          /\ WF_vars(LockBody(c))
          /\ WF_vars(RunRelease(c))
          /\ WF_vars(Respond(c))

(***************************************************************************)
(* Exceptions.  The body of start_command is one try block (lines 925-983) *)
(* and so is the body of verify_join_callback (lines 1067-1101): an        *)
(* exception raised by a call awaited in it (the executor refusing the job *)
(* of a lock or of the store, a request to the platform failing) ends the  *)
(* call without its effect and takes the handler to its except clause,     *)
(* which shows the main menu (lines 984-987 / 1103-1105).                  *)
(***************************************************************************)

\* Where a handler awaits a call of the claim, of the membership check or of
\* the ledger.
AwaitsCall(pc) ==
    pc \in {"st_is_referred", "st_scan", "st_get_pending", "st_add_pending",
            "check", "mark_joined", "wb_get_user", "wb_check", "wb_update",
            "get_pending", "is_referred", "ar_lock", "ar_get_user", "ar_read",
            "ar_update", "remove_pending"}

\* A handler without the except clause: the exception ends it.
Raises_Aborts(p) ==
    /\ NoTask
    /\ co[p].handler \in {"start", "verify"}
    /\ AwaitsCall(co[p].pc)
    /\ Finish(p)
    /\ UNCHANGED <<INITIAL_CHANNELS, verifier, pool, notices, users, referrals, pending, cache, member,
                   txTasks, events, users0, grants, promotions, accepted>>

\* Lines 984-987 / 1103-1105.
Raises(p) ==
    /\ NoTask
    /\ co[p].handler \in {"start", "verify"}
    /\ AwaitsCall(co[p].pc)
    /\ Goto(p, [co[p] EXCEPT !.raised = TRUE], "menu")
    /\ UNCHANGED <<INITIAL_CHANNELS, verifier, pool, notices, users, referrals, pending, cache, member,
                   txTasks, events, users0, grants, promotions, accepted>>

\* The start and verify handlers with exceptions, each event arriving after
\* the handler of the previous one has finished.
NextFaults ==
    \/ /\ \A q \in Procs : co[q].pc = "idle"
       /\ \E p \in Procs, u \in Users, arg \in StartArgs : StartCommand(p, u, arg)
    \/ /\ \A q \in Procs : co[q].pc = "idle"
       /\ \E p \in Procs, u \in Users : VerifyJoinCallback(p, u)
    \/ \E p \in Procs : Raises(p)
    \/ \E p \in Procs : StartIsReferred(p)
    \/ \E p \in Procs : StartScan(p)
    \/ \E p \in Procs : StartGetPending(p)
    \/ \E p \in Procs : StartAddPending(p)
    \/ \E p \in Procs : StartCheck(p)
    \/ \E p \in Procs : MarkJoined(p)
    \/ \E p \in Procs : WelcomeGetUser(p)
    \/ \E p \in Procs : WelcomeCheck(p)
    \/ \E p \in Procs : WelcomeUpdate(p)
    \/ \E p \in Procs : GetPending(p)
    \/ \E p \in Procs : PromoteIsReferred(p)
    \/ \E p \in Procs : AddReferralLock(p)
    \/ \E p \in Procs : AddReferralGetUser(p)
    \/ \E p \in Procs : AddReferralRead(p)
    \/ \E p \in Procs : AddReferralUpdate(p)
    \/ \E p \in Procs : RemovePending(p)
    \/ \E p \in Procs : ShowMainMenu(p)
    \/ \E p \in Procs : ShowJoinButtons(p)
    \/ \E t \in BagToSet(txTasks) : AddTransaction(t)

SpecFaults == Init /\ [][NextFaults]_vars

\* withdraw_command alone, for every message of the model.
NextWithdraw ==
    \/ \E p \in Procs, u \in Users, args \in WithdrawArgs \cup OtherWithdrawArgs :
          WithdrawCommand(p, u, args)
    \/ \E p \in Procs : WithdrawCheck(p)
    \/ \E p \in Procs : WithdrawUpdate(p)
    \/ \E t \in BagToSet(txTasks) : AddTransaction(t)

SpecWithdraw == Init /\ [][NextWithdraw]_vars

(***************************************************************************)
(* The scenarios of the specification's section 8, on the code: the channel *)
(* list is [@chA]; user 1 is a referrer with balance 5.0 and two referrals; *)
(* the last user has never talked to the bot and is in no channel.  It      *)
(* sends start (with no code or with the referrer's); once the start's      *)
(* membership check has returned it joins the channel and sends verify, the *)
(* one before or after the other and verify possibly more than once: four   *)
(* events in all, each after the handler of the one before has finished.    *)
(***************************************************************************)

Newcomer == NUsers

InitScenario ==
    /\ users = [u \in Users |-> IF u = 1 THEN UserRecord(5, 2)
                                 ELSE IF u < NUsers THEN NewUser ELSE Absent]
    /\ users0 = users
    /\ referrals = [u \in Users |-> None]
    /\ pending = [u \in Users |-> None]
    /\ cache = [u \in Users |-> [valid |-> FALSE, not_joined |-> {}]]
    /\ member = [u \in Users |-> {}]
    /\ txTasks = EmptyBag
    /\ co = [p \in Procs |-> Idle]
    /\ events = MaxEvents - 4
    /\ grants = [u \in Users |-> 0]
    /\ promotions = [u \in Users |-> 0]
    /\ accepted = [u \in Users |-> 0]
    /\ channels = <<"@chA">>
    /\ VerifierAtRest
    /\ INITIAL_CHANNELS = channels
    /\ PoolAtRest
    /\ notices = {}

NextScenario ==
    \/ /\ events = MaxEvents - 4
       /\ \E p \in Procs, arg \in {<<>>, ReferralCode(1)} :
             StartCommand(p, Newcomer, arg)
    \/ \E p \in Procs : StartIsReferred(p)
    \/ \E p \in Procs : StartScan(p)
    \/ \E p \in Procs : StartGetPending(p)
    \/ \E p \in Procs : StartAddPending(p)
    \/ \E p \in Procs : StartCheck(p)
    \/ /\ Quiescent
       /\ cache[Newcomer].valid
       /\ \E c \in Channels : JoinChannel(Newcomer, c)
    \/ /\ Quiescent
       /\ cache[Newcomer].valid
       /\ \E p \in Procs : VerifyJoinCallback(p, Newcomer)
    \/ \E p \in Procs : MarkJoined(p)
    \/ \E p \in Procs : WelcomeGetUser(p)
    \/ \E p \in Procs : WelcomeCheck(p)
    \/ \E p \in Procs : WelcomeUpdate(p)
    \/ \E p \in Procs : GetPending(p)
    \/ \E p \in Procs : PromoteIsReferred(p)
    \/ \E p \in Procs : AddReferralLock(p)
    \/ \E p \in Procs : AddReferralGetUser(p)
    \/ \E p \in Procs : AddReferralRead(p)
    \/ \E p \in Procs : AddReferralUpdate(p)
    \/ \E p \in Procs : RemovePending(p)
    \/ \E p \in Procs : ShowMainMenu(p)
    \/ \E p \in Procs : ShowJoinButtons(p)
    \/ \E t \in BagToSet(txTasks) : AddTransaction(t)

SpecScenario == InitScenario /\ [][NextScenario]_vars

(***************************************************************************)
(* Three verify events, at most NProcs of them handled at a time: user 2   *)
(* has a pending referral by user 1 in the store and everybody is a member *)
(* of the channel, so that each event can credit an account.               *)
(***************************************************************************)

InitCredits ==
    /\ users = InitUsers
    /\ users0 = users
    /\ referrals = [u \in Users |-> None]
    /\ pending = [u \in Users |-> IF u = 2 THEN 1 ELSE None]
    /\ cache = [u \in Users |-> [valid |-> FALSE, not_joined |-> {}]]
    /\ member = [u \in Users |-> Channels]
    /\ txTasks = EmptyBag
    /\ co = [p \in Procs |-> Idle]
    /\ events = MaxEvents - 3
    /\ grants = [u \in Users |-> 0]
    /\ promotions = [u \in Users |-> 0]
    /\ accepted = [u \in Users |-> 0]
    /\ channels = <<"@chA">>
    /\ VerifierAtRest
    /\ INITIAL_CHANNELS = channels
    /\ PoolAtRest
    /\ notices = {}

NextCredits ==
    \/ \E p \in Procs, u \in Users : VerifyJoinCallback(p, u)
    \/ \E p \in Procs : MarkJoined(p)
    \/ \E p \in Procs : WelcomeGetUser(p)
    \/ \E p \in Procs : WelcomeCheck(p)
    \/ \E p \in Procs : WelcomeUpdate(p)
    \/ \E p \in Procs : GetPending(p)
    \/ \E p \in Procs : PromoteIsReferred(p)
    \/ \E p \in Procs : AddReferralLock(p)
    \/ \E p \in Procs : AddReferralGetUser(p)
    \/ \E p \in Procs : AddReferralRead(p)
    \/ \E p \in Procs : AddReferralUpdate(p)
    \/ \E p \in Procs : RemovePending(p)
    \/ \E p \in Procs : ShowMainMenu(p)
    \/ \E p \in Procs : ShowJoinButtons(p)
    \/ \E t \in BagToSet(txTasks) : AddTransaction(t)

SpecCredits == InitCredits /\ [][NextCredits]_vars

(***************************************************************************)
(* add_transaction on a log near its retention bound: user 1 has made n    *)
(* withdrawals of the minimum amount, all of them logged, and has the      *)
(* balance for three more; the withdraw handlers then append to that log.  *)
(***************************************************************************)

LogLengths == {0, MAX_TRANSACTIONS - 1, MAX_TRANSACTIONS}

WithdrawalTx(u) ==
    [user |-> u, amount |-> 0 - MIN_WITHDRAW, type |-> "withdrawal",
     description |-> "Withdrawal via", ref |-> None]

\* The log after n calls of add_transaction on an empty one.
RECURSIVE LogOf(_, _)
LogOf(u, n) == IF n = 0 THEN <<>>
               ELSE AppendTransaction(LogOf(u, n - 1), WithdrawalTx(u))

InitLog ==
    /\ \E n \in LogLengths :
          users = [InitUsers EXCEPT
                      ![1] = [UserRecord(3 * MIN_WITHDRAW, 0) EXCEPT
                                 !.total_earned = (3 + n) * MIN_WITHDRAW,
                                 !.total_withdrawn = n * MIN_WITHDRAW,
                                 !.transactions = LogOf(1, n)]]
    /\ users0 = users
    /\ referrals = [u \in Users |-> None]
    /\ pending = [u \in Users |-> None]
    /\ cache = [u \in Users |-> [valid |-> FALSE, not_joined |-> {}]]
    /\ member = [u \in Users |-> {}]
    /\ txTasks = EmptyBag
    /\ co = [p \in Procs |-> Idle]
    /\ events = 0
    /\ grants = [u \in Users |-> 0]
    /\ promotions = [u \in Users |-> 0]
    /\ accepted = [u \in Users |-> 0]
    /\ channels = <<"@chA">>
    /\ VerifierAtRest
    /\ INITIAL_CHANNELS = channels
    /\ PoolAtRest
    /\ notices = {}

SpecLog == InitLog /\ [][NextWithdraw]_vars

(***************************************************************************)
(* check_channel_membership by itself (lines 760-850), with its clock, its *)
(* probes and its cache.  The handlers above use the outcome of a call;    *)
(* here a call is followed through its awaits.  `now' is the wall clock in *)
(* seconds; a timer fires at or after its deadline, and the order in which *)
(* two due timers fire is left open.  `channels' is the configured list    *)
(* (chat ids are unique, lines 504-508), `channel_check_cache' the dict of *)
(* line 69, keyed by the strings of line 769, and calls[p] one invocation: *)
(* tasks[i] is the state of the probe of channels[i].                      *)
(***************************************************************************)
PROBE_TIMEOUT == 3
WAIT_TIMEOUT == 10
CALLER_TIMEOUT == 5
CACHE_TIMEOUT == 300

MaxChannels == 2
MaxTicks == 2

\* The users on whose behalf the verifier is called.
Callers == {1, 2}

ChatIds == <<"@chA", "@chB", "@chC", "@chD">>

ChannelLists == {SubSeq(ChatIds, 1, n) : n \in 0..MaxChannels}

Range(s) == {s[i] : i \in DOMAIN s}

\* The rest of the state, which a call of the verifier does not touch.
ledger == <<users, referrals, pending, cache, txTasks, co, users0, grants,
            promotions, accepted, pool, notices,
            INITIAL_CHANNELS>>

\* Line 769: f"{user_id}_{len(channels)}".
cache_key(user_id, chs) == Digits(user_id) \o <<"_">> \o Digits(Len(chs))

\* Lines 772-774 with the test of the age made inclusive.
CacheHit_Inclusive(key, current_time) ==
    /\ key \in DOMAIN channel_check_cache
    /\ current_time - channel_check_cache[key].cache_time <= CACHE_TIMEOUT

\* Lines 772-774.
CacheHit(key, current_time) ==
    /\ key \in DOMAIN channel_check_cache
    /\ current_time - channel_check_cache[key].cache_time < CACHE_TIMEOUT

\* Line 764: `if not channels'.
ReturnsAtOnce_Never(chs) == FALSE

ReturnsAtOnce(chs) == chs = <<>>

Done == {"member", "not_member", "timeout", "error"}

\* What a finished probe returns (lines 841, 844, 847).
ProbeResult_TimeoutOpen(state) == state \in {"member", "timeout"}

ProbeResult(state) == state = "member"

\* Line 807: channel_results.get(channel_id, False); only the tasks in
\* `done' have put their result into channel_results (lines 797-800).
ChannelResult_DefaultTrue(state) == IF state \in Done THEN ProbeResult(state) ELSE TRUE

ChannelResult(state) == IF state \in Done THEN ProbeResult(state) ELSE FALSE

\* Lines 804-810: the channels without a positive result, in list order.
MembershipResult(tasks) ==
    LET idx == SelectSeq([i \in 1..Len(channels) |-> i],
                         LAMBDA i : ~ChannelResult(tasks[i]))
        not_joined == [k \in 1..Len(idx) |-> channels[idx[k]]]
    IN  [has_joined |-> Len(not_joined) = 0, not_joined |-> not_joined]

Waiting(p) == calls[p].pc = "wait"

\* A call takes the lowest slot in which no call is waiting.
FreeCall(p) ==
    /\ ~Waiting(p)
    /\ \A q \in Procs : q < p => Waiting(q)

\* Lines 760-786, up to the await of line 789.
CheckChannelMembership(p, user_id) ==
    /\ FreeCall(p)
    /\ events < MaxEvents
    /\ events' = events + 1
    /\ IF ReturnsAtOnce(channels)
       THEN /\ calls' = [calls EXCEPT ![p] =
                   [IdleCall EXCEPT !.pc = "returned", !.user = user_id,
                        !.result = [has_joined |-> TRUE, not_joined |-> <<>>]]]
       ELSE IF CacheHit(cache_key(user_id, channels), now)
       THEN /\ calls' = [calls EXCEPT ![p] =
                   [IdleCall EXCEPT !.pc = "returned", !.user = user_id,
                        !.current_time = now, !.source = "cache",
                        !.result = channel_check_cache[cache_key(user_id, channels)].result]]
       ELSE /\ calls' = [calls EXCEPT ![p] =
                   [IdleCall EXCEPT !.pc = "wait", !.user = user_id,
                        !.current_time = now, !.source = "probes",
                        !.tasks = [i \in 1..Len(channels) |-> "running"]]]
    /\ UNCHANGED <<now, ticks, channels, channel_check_cache, member, ledger>>

Running(p, i) == Waiting(p) /\ i \in DOMAIN calls[p].tasks /\ calls[p].tasks[i] = "running"

ProbeEnds(p, i, state) ==
    /\ calls' = [calls EXCEPT ![p].tasks[i] = state]
    /\ UNCHANGED <<now, ticks, channels, channel_check_cache, member, events, ledger>>

\* Line 841: get_chat_member answers.
ProbeAnswer(p, i) ==
    /\ Running(p, i)
    /\ ProbeEnds(p, i, IF channels[i] \in member[calls[p].user]
                    THEN "member" ELSE "not_member")

\* Lines 837-844: the 3 second wait_for of the probe expires.
ProbeTimeout(p, i) ==
    /\ Running(p, i)
    /\ now - calls[p].current_time >= PROBE_TIMEOUT
    /\ ProbeEnds(p, i, "timeout")

\* Lines 845-847: get_chat_member raises.
ProbeRaise(p, i) ==
    /\ Running(p, i)
    /\ ProbeEnds(p, i, "error")

\* Lines 795-816 for the tasks as they are when asyncio.wait returns.
Return(p, tasks) ==
    /\ calls' = [calls EXCEPT ![p].pc = "returned", ![p].tasks = tasks,
                              ![p].result = MembershipResult(tasks)]
    /\ channel_check_cache' =
           (cache_key(calls[p].user, channels) :>
                [cache_time |-> calls[p].current_time,
                 result |-> MembershipResult(tasks)]) @@ channel_check_cache
    /\ UNCHANGED <<now, ticks, channels, member, events, ledger>>

\* Line 789: every probe is done.
WaitReturns(p) ==
    /\ Waiting(p)
    /\ \A i \in DOMAIN calls[p].tasks : calls[p].tasks[i] \in Done
    /\ Return(p, calls[p].tasks)

\* Lines 789-793: the 10 seconds are over with probes still pending; they
\* are cancelled.
WaitTimeout(p) ==
    /\ Waiting(p)
    /\ \E i \in DOMAIN calls[p].tasks : calls[p].tasks[i] = "running"
    /\ now - calls[p].current_time >= WAIT_TIMEOUT
    /\ Return(p, [i \in DOMAIN calls[p].tasks |->
                    IF calls[p].tasks[i] = "running" THEN "cancelled"
                    ELSE calls[p].tasks[i]])

\* Lines 955-958 and 1075-1078: the handler's wait_for(..., timeout=5.0)
\* cancels the call at the await of line 789.  CancelledError is not an
\* Exception, so nothing is returned or cached; the probes already created
\* are left to themselves and their results are never read.
CallerTimeout(p) ==
    /\ Waiting(p)
    /\ now - calls[p].current_time >= CALLER_TIMEOUT
    /\ calls' = [calls EXCEPT ![p].pc = "cancelled"]
    /\ UNCHANGED <<now, ticks, channels, channel_check_cache, member, events, ledger>>

\* Steps of the clock: they reach every deadline, and CACHE_TIMEOUT exactly.
Delays == {PROBE_TIMEOUT, WAIT_TIMEOUT, CACHE_TIMEOUT - WAIT_TIMEOUT}

\* The clock is read only as a difference from the start of a call or from
\* a cache entry, so it is left at rest until there is one of them.
Tick(d) ==
    /\ ticks < MaxTicks
    /\ (\E p \in Procs : Waiting(p)) \/ channel_check_cache # <<>>
    /\ ticks' = ticks + 1
    /\ now' = now + d
    /\ UNCHANGED <<channels, channel_check_cache, calls, member, events, ledger>>

InitCheck ==
    /\ users = InitUsers
    /\ referrals = [u \in Users |-> None]
    /\ pending = [u \in Users |-> None]
    /\ cache = [u \in Users |-> [valid |-> FALSE, not_joined |-> {}]]
    /\ channels \in ChannelLists
    /\ member \in {[u \in Users |-> IF u = 1 THEN s ELSE {}] : s \in SUBSET Range(channels)}
    /\ txTasks = EmptyBag
    /\ co = [p \in Procs |-> Idle]
    /\ events = 0
    /\ users0 = users
    /\ grants = [u \in Users |-> 0]
    /\ promotions = [u \in Users |-> 0]
    /\ accepted = [u \in Users |-> 0]
    /\ VerifierAtRest
    /\ INITIAL_CHANNELS = channels
    /\ PoolAtRest
    /\ notices = {}

NextCheck ==
    \/ \E p \in Procs, u \in Callers : CheckChannelMembership(p, u)
    \/ \E p \in Procs, i \in 1..MaxChannels : ProbeAnswer(p, i)
    \/ \E p \in Procs, i \in 1..MaxChannels : ProbeTimeout(p, i)
    \/ \E p \in Procs, i \in 1..MaxChannels : ProbeRaise(p, i)
    \/ \E p \in Procs : WaitReturns(p)
    \/ \E p \in Procs : WaitTimeout(p)
    \/ \E p \in Procs : CallerTimeout(p)
    \/ \E d \in Delays : Tick(d)

SpecCheck == InitCheck /\ [][NextCheck]_vars

(***************************************************************************)
(* The verifier with its error branch: an exception raised inside the try  *)
(* block of check_channel_membership (lines 781-816) is caught at line 822 *)
(* and the call returns (False, channels) without reaching line 813.       *)
(***************************************************************************)

\* Lines 822-824.
CallRaises(p) ==
    /\ Waiting(p)
    /\ calls' = [calls EXCEPT ![p].pc = "returned", ![p].source = "error",
                              ![p].result = [has_joined |-> FALSE,
                                             not_joined |-> channels]]
    /\ UNCHANGED <<now, ticks, channels, channel_check_cache, member, events, ledger>>

NextCache ==
    \/ \E p \in Procs, u \in Callers : CheckChannelMembership(p, u)
    \/ \E p \in Procs, i \in 1..MaxChannels : ProbeAnswer(p, i)
    \/ \E p \in Procs, i \in 1..MaxChannels : ProbeTimeout(p, i)
    \/ \E p \in Procs, i \in 1..MaxChannels : ProbeRaise(p, i)
    \/ \E p \in Procs : WaitReturns(p)
    \/ \E p \in Procs : WaitTimeout(p)
    \/ \E p \in Procs : CallerTimeout(p)
    \/ \E p \in Procs : CallRaises(p)
    \/ \E d \in Delays : Tick(d)

SpecCache == InitCheck /\ [][NextCache]_vars

(***************************************************************************)
(* One call of check_channel_membership over a list of six channels: the   *)
(* loop of lines 784-786 creates one task per configured channel before    *)
(* the call awaits anything.                                               *)
(***************************************************************************)
SixChannels == ChatIds \o <<"@chE", "@chF">>

InitProbes ==
    /\ users = InitUsers
    /\ referrals = [u \in Users |-> None]
    /\ pending = [u \in Users |-> None]
    /\ cache = [u \in Users |-> [valid |-> FALSE, not_joined |-> {}]]
    /\ channels = SixChannels
    /\ member \in {[u \in Users |-> IF u = 1 THEN s ELSE {}] :
                      s \in {{}, Range(channels)}}
    /\ txTasks = EmptyBag
    /\ co = [p \in Procs |-> Idle]
    /\ events = MaxEvents - 1
    /\ users0 = users
    /\ grants = [u \in Users |-> 0]
    /\ promotions = [u \in Users |-> 0]
    /\ accepted = [u \in Users |-> 0]
    /\ VerifierAtRest
    /\ INITIAL_CHANNELS = channels
    /\ PoolAtRest
    /\ notices = {}

NextProbes ==
    \/ \E p \in Procs : CheckChannelMembership(p, 1)
    \/ \E p \in Procs, i \in DOMAIN SixChannels : ProbeAnswer(p, i)
    \/ \E p \in Procs, i \in DOMAIN SixChannels : ProbeTimeout(p, i)
    \/ \E p \in Procs, i \in DOMAIN SixChannels : ProbeRaise(p, i)
    \/ \E p \in Procs : WaitReturns(p)
    \/ \E p \in Procs : WaitTimeout(p)
    \/ \E p \in Procs : CallerTimeout(p)
    \/ \E d \in Delays : Tick(d)

SpecProbes == InitProbes /\ [][NextProbes]_vars

(***************************************************************************)
(* show_join_buttons followed through its loop (lines 1002-1063), for the  *)
(* channels a check reported.  For each of the first five it awaits        *)
(* get_invite_link under a wait_for of 3 seconds (lines 1015-1022); the    *)
(* whole loop is inside one try block (lines 1014-1029).  The platform     *)
(* answers the requests of get_invite_link for a channel in time ("ok"),   *)
(* refuses them ("error"), or takes longer than the 3 seconds ("slow").    *)
(***************************************************************************)

\* The channels of the registry in this part: usernames and numeric ids.
JoinChannels == <<"@chA", "-1001000000001", "@chB", "-1001000000002", "@chC", "@chD">>

\* chat_id.startswith('@') (line 910).
IsUsername(chat_id) == chat_id \in Range(ChatIds)

Answers == {"ok", "error", "slow"}

\* not_joined[:5] (line 1015).
Shown(not_joined) == SubSeq(not_joined, 1, IF Len(not_joined) < 5 THEN Len(not_joined) ELSE 5)

\* get_invite_link (lines 852-921) when it returns within the 3 seconds: the
\* link of the channel (lines 876-883, 886-897) or, when the requests fail,
\* the t.me link of a username (lines 909-913); otherwise None (line 915).
\* A link is written as the chat id it leads to.
get_invite_link(chat_id, answer) ==
    IF answer = "ok" \/ IsUsername(chat_id) THEN <<chat_id>> ELSE <<>>

\* A handler calls show_join_buttons with the channels the check reported
\* (lines 961 and 1098; an empty list goes to the main menu, lines 1007-1009).
ShowJoinButtonsCalled(p, u, not_joined, platform) ==
    /\ \A q \in Procs : co[q].pc = "idle"
    /\ FreeSlot(p)
    /\ MayHappen
    /\ events' = events + 1
    /\ co' = [co EXCEPT ![p] =
                 [Idle EXCEPT !.pc = "links", !.handler = "start", !.user = u,
                              !.not_joined = not_joined, !.platform = platform]]
    /\ UNCHANGED <<INITIAL_CHANNELS, verifier, pool, notices, users, referrals, pending, cache, member,
                   txTasks, users0, grants, promotions, accepted>>

\* One turn of the loop (lines 1015-1027), or its end by the TimeoutError of
\* wait_for, which is caught outside the loop (line 1028).
ResolveLink(p) ==
    /\ At(p, "links")
    /\ LET i == co[p].next
           shown == Shown(co[p].not_joined)
       IN  IF i > Len(shown) \/ co[p].platform[i] = "slow"
           THEN Goto(p, co[p], "send")
           ELSE Goto(p, [co[p] EXCEPT
                            !.keyboard = co[p].keyboard
                                \o get_invite_link(shown[i], co[p].platform[i]),
                            !.next = i + 1], "links")
    /\ UNCHANGED <<INITIAL_CHANNELS, verifier, pool, notices, users, referrals, pending, cache, member,
                   txTasks, events, users0, grants, promotions, accepted>>

\* Lines 1031-1059: the prompt with the buttons collected, or the main menu
\* when there is none.
SendJoinButtons(p) ==
    /\ At(p, "send")
    /\ IF co[p].keyboard # <<>>
       THEN Finish(p)
       ELSE Goto(p, [co[p] EXCEPT !.not_joined = <<>>, !.platform = <<>>,
                                  !.next = 1], "menu")
    /\ UNCHANGED <<INITIAL_CHANNELS, verifier, pool, notices, users, referrals, pending, cache, member,
                   txTasks, events, users0, grants, promotions, accepted>>

NextJoin ==
    \/ \E p \in Procs, u \in Users, n \in 1..Len(JoinChannels) :
          \E platform \in [1..n -> Answers] :
             ShowJoinButtonsCalled(p, u, SubSeq(JoinChannels, 1, n), platform)
    \/ \E p \in Procs : ResolveLink(p)
    \/ \E p \in Procs : SendJoinButtons(p)
    \/ \E p \in Procs : ShowMainMenu(p)

SpecJoin == InitPool /\ [][NextJoin]_vars

(***************************************************************************)
(* The channel registry.  INITIAL_CHANNELS is the list read from the       *)
(* environment (lines 48-53: split at commas, stripped, empty entries      *)
(* dropped); DataManager.__init__ sets channels to [] (line 444) and       *)
(* init_channels_from_env (lines 466-476) calls add_channel_from_env for   *)
(* each entry in turn, before any handler runs (line 570).  While that     *)
(* loop runs, events is minus the number of entries still to be read.      *)
(* A chat id is written as the sequence of its characters.                 *)
(***************************************************************************)
MaxConfig == 3

\* A numeric id of ten digits, written bare, with the -100 prefix and with a
\* dash; a username; a numeric id of nine digits and a bare name, which
\* line 500 refuses.
BareId == Digits(1234567890)

ConfigIds ==
    {BareId, <<"-", "1", "0", "0">> \o BareId, <<"-">> \o BareId,
     <<"@", "c", "h", "A">>, Digits(123456789), <<"c", "h", "A">>}

RECURSIVE ConfigLists(_)
ConfigLists(n) ==
    IF n = 0 THEN {<<>>}
    ELSE ConfigLists(n - 1)
         \cup {Append(l, c) : l \in {k \in ConfigLists(n - 1) : Len(k) = n - 1},
                              c \in ConfigIds}

\* str.strip() (line 486).
RECURSIVE strip(_)
strip(s) ==
    IF s = <<>> THEN s
    ELSE IF Head(s) = " " THEN strip(Tail(s))
    ELSE IF s[Len(s)] = " " THEN strip(SubSeq(s, 1, Len(s) - 1))
    ELSE s

\* str.startswith and str.isdigit (lines 493-499).
startswith(s, prefix) == IsPrefix(prefix, s)

isdigit(s) == s # <<>> /\ \A i \in DOMAIN s : s[i] \in Range(DigitChar)

\* Lines 493-502: the chat id as it is stored, <<>> for a refused format.
\* The prefix of line 500 left out.
FormatChatId_NoPrefix(clean_id) ==
    IF startswith(clean_id, <<"@">>) THEN clean_id
    ELSE IF startswith(clean_id, <<"-", "1", "0", "0">>) THEN clean_id
    ELSE IF startswith(clean_id, <<"-">>) THEN clean_id
    ELSE IF isdigit(clean_id) /\ Len(clean_id) > 9 THEN clean_id
    ELSE <<>>

FormatChatId(clean_id) ==
    IF startswith(clean_id, <<"@">>) THEN clean_id
    ELSE IF startswith(clean_id, <<"-", "1", "0", "0">>) THEN clean_id
    ELSE IF startswith(clean_id, <<"-">>) THEN clean_id
    ELSE IF isdigit(clean_id) /\ Len(clean_id) > 9
         THEN <<"-", "1", "0", "0">> \o clean_id
    ELSE <<>>

\* add_channel_from_env (lines 478-528): the registry after the call.
add_channel_from_env(chs, chat_id) ==
    LET clean_id == strip(chat_id)
        chat_id_str == FormatChatId(clean_id)
    IN  IF clean_id = <<>> \/ chat_id_str = <<>> THEN chs
        ELSE IF \E i \in DOMAIN chs : chs[i] = chat_id_str THEN chs
        ELSE Append(chs, chat_id_str)

\* One turn of the loop of lines 471-473.
AddChannelFromEnv ==
    /\ events < 0
    /\ channels' = add_channel_from_env(channels,
                       INITIAL_CHANNELS[Len(INITIAL_CHANNELS) + events + 1])
    /\ events' = events + 1
    /\ UNCHANGED <<INITIAL_CHANNELS, now, ticks, channel_check_cache, calls, pool,
                   notices, users, referrals, pending, cache, member, txTasks, co,
                   users0, grants, promotions, accepted>>

InitChannels ==
    /\ users = InitUsers
    /\ users0 = users
    /\ referrals = [u \in Users |-> None]
    /\ pending = [u \in Users |-> IF u = 2 THEN 1 ELSE None]
    /\ cache = [u \in Users |-> [valid |-> FALSE, not_joined |-> {}]]
    /\ member = [u \in Users |-> Channels]
    /\ txTasks = EmptyBag
    /\ co = [p \in Procs |-> Idle]
    /\ INITIAL_CHANNELS \in ConfigLists(MaxConfig)
    /\ events = 0 - Len(INITIAL_CHANNELS)
    /\ grants = [u \in Users |-> 0]
    /\ promotions = [u \in Users |-> 0]
    /\ accepted = [u \in Users |-> 0]
    /\ channels = <<>>
    /\ now = 0
    /\ ticks = 0
    /\ channel_check_cache = <<>>
    /\ calls = [p \in Procs |-> IdleCall]
    /\ PoolAtRest
    /\ notices = {}

\* The start-up, and then the verify handler for one event after the other.
NextChannels ==
    \/ AddChannelFromEnv
    \/ /\ events >= 0
       /\ \A q \in Procs : co[q].pc = "idle"
       /\ \E p \in Procs, u \in Users : VerifyJoinCallback(p, u)
    \/ \E p \in Procs : MarkJoined(p)
    \/ \E p \in Procs : WelcomeGetUser(p)
    \/ \E p \in Procs : WelcomeCheck(p)
    \/ \E p \in Procs : WelcomeUpdate(p)
    \/ \E p \in Procs : GetPending(p)
    \/ \E p \in Procs : PromoteIsReferred(p)
    \/ \E p \in Procs : AddReferralLock(p)
    \/ \E p \in Procs : AddReferralGetUser(p)
    \/ \E p \in Procs : AddReferralRead(p)
    \/ \E p \in Procs : AddReferralUpdate(p)
    \/ \E p \in Procs : RemovePending(p)
    \/ \E p \in Procs : ShowMainMenu(p)
    \/ \E p \in Procs : ShowJoinButtons(p)
    \/ \E t \in BagToSet(txTasks) : AddTransaction(t)

SpecChannels == InitChannels /\ [][NextChannels]_vars

(***************************************************************************)
(* Bookkeeping for the properties.  users0 is the initial ledger;          *)
(* grants[u] counts the give_welcome_bonus(u) calls that returned True,    *)
(* promotions[f] the add_referral(_, f) calls that returned True, and      *)
(* accepted[u] sums the amounts of u's accepted withdrawals.               *)
(***************************************************************************)

\* The figures a user started from (an account created later starts new).
Base(u) == IF users0[u].exists THEN users0[u] ELSE NewUser

\* The completed referrals naming r as referrer.
Completed(r) == Cardinality({f \in Users : referrals[f] = r})

\* Transactions of user u with the given description (and subject), in the
\* log or still to be appended.
TxCount(u, desc, ref) ==
    Cardinality({i \in DOMAIN users[u].transactions :
                    /\ users[u].transactions[i].description = desc
                    /\ users[u].transactions[i].ref = ref})
    + BagCardinality([t \in {x \in BagToSet(txTasks) :
                                x.user = u /\ x.description = desc /\ x.ref = ref}
                        |-> txTasks[t]])

Active(p) == co[p].pc # "idle"

\* Coroutine p takes a step.
Steps(p) == co'[p] # co[p]

(***************************************************************************)
(* Properties.                                                             *)
(***************************************************************************)

\* C1: give_welcome_bonus(U) invoked any number of times concurrently:
\* exactly one invocation returns True, exactly one 'Welcome bonus'
\* transaction is appended, and welcome_bonus_received ends true.
C1_WelcomeBonusExactlyOnce ==
    \A u \in Users :
        /\ grants[u] <= 1
        /\ TxCount(u, "Welcome bonus", None) <= 1
        /\ grants[u] >= 1 => users[u].welcome_bonus_received
        /\ (Quiescent /\ users[u].welcome_bonus_received) =>
              /\ grants[u] = 1
              /\ TxCount(u, "Welcome bonus", None) = 1

\* C2: concurrent promotion attempts for a referred user F complete the
\* referral F -> R exactly once: at most one add_referral(R, F) returns True,
\* one 'Referral bonus' transaction is issued for F, and once the attempts
\* are over R, if nothing else touched its ledger, is credited by exactly
\* REFERRAL_BONUS.
C2_PromotionExactlyOnce ==
    \A f \in Users :
        /\ promotions[f] <= 1
        /\ \A r \in Users : TxCount(r, "Referral bonus for user", f) <= promotions[f]
        /\ promotions[f] = 1 => referrals[f] \notin {None, f}
        /\ \A r \in Users :
              (/\ Quiescent
               /\ referrals[f] = r
               /\ Completed(r) = 1
               /\ grants[r] = 0
               /\ accepted[r] = 0)
              => /\ promotions[f] = 1
                 /\ users[r].balance = Base(r).balance + REFERRAL_BONUS
                 /\ users[r].referral_count = Base(r).referral_count + 1
                 /\ users[r].total_earned = Base(r).total_earned + REFERRAL_BONUS
                 /\ TxCount(r, "Referral bonus for user", f) = 1

\* Two handlers of the same user both went through add_referral, and one
\* promotion was made.
C2_Witness ==
    \E p, q \in Procs :
        /\ p # q
        /\ co[p].user = co[q].user
        /\ co[p].pc = "remove_pending"
        /\ co[q].pc = "remove_pending"
        /\ co[p].pending_referrer # co[p].user
        /\ promotions[co[p].user] = 1

PromotionInProgress ==
    \E p \in Procs : co[p].pc \in {"ar_get_user", "ar_read", "ar_update"}

\* C3: whenever no promotion is in progress, each user's referral_count is
\* its initial count plus the number of completed referrals naming it, and
\* its total_earned has grown by REFERRAL_BONUS per such referral (and by
\* the welcome bonus, once granted).
C3_EveryPromotionCredited ==
    ~PromotionInProgress =>
        \A r \in Users :
            /\ users[r].referral_count = Base(r).referral_count + Completed(r)
            /\ users[r].total_earned >=
                  Base(r).total_earned + REFERRAL_BONUS * Completed(r)

\* C4: the accepted withdrawals of a user never sum to more than the balance
\* it started from plus the credits it received, and once everything is over
\* the balance is that sum minus the accepted amounts.
C4_WithdrawalsSerialized ==
    \A u \in Users :
        LET credits == WELCOME_BONUS * grants[u] + REFERRAL_BONUS * Completed(u)
        IN  /\ accepted[u] <= Base(u).balance + credits
            /\ (Quiescent /\ grants[u] = 0 /\ Completed(u) = 0) =>
                  users[u].balance = Base(u).balance - accepted[u]

\* The part of start_command that makes the claim (lines 936-951).
ClaimPhase == {"st_is_referred", "st_scan", "st_get_pending", "st_add_pending"}

\* C5: claims made one after the other: a start handler that finds a pending
\* entry for its user leaves the entry (and the ledger) as it is, whatever
\* code it carries.
C5_SequentialClaimKeepsFirst ==
    [][\A p \in Procs :
          (/\ Steps(p)
           /\ co[p].pc \in ClaimPhase
           /\ pending[co[p].user] # None)
          => UNCHANGED <<pending, users, referrals>>]_vars

\* A new user's second start, with the code of another referrer than the one
\* its pending entry names, has gone through the claim.
C5_Witness ==
    \E p \in Procs :
        /\ co[p].handler = "start"
        /\ co[p].pc = "check"
        /\ ~users0[co[p].user].exists
        /\ co[p].referrer_found \notin {None, co[p].user}
        /\ pending[co[p].user] \notin {None, co[p].referrer_found}

\* C6: in every interleaving of start events the referrer of a pending entry
\* never changes between the entry's creation and its removal.
C6_PendingReferrerNeverChanges ==
    [][\A f \in Users :
          (pending[f] # None /\ pending'[f] # None) => pending'[f] = pending[f]]_vars

\* C7: no start event creates a pending entry naming the user itself, a
\* start carrying the user's own code changes nothing while it handles the
\* code, add_referral(U, U) returns False without effect, and no completed
\* referral has referrer = referred.
C7_SelfReferralRejected ==
    [][/\ \A u \in Users : pending'[u] = u => pending[u] = u
       /\ \A u \in Users : referrals'[u] # u
       /\ \A p \in Procs :
             (/\ Steps(p)
              /\ co[p].pc \in ClaimPhase
              /\ co[p].arg = ReferralCode(co[p].user))
             => /\ UNCHANGED <<pending, users, referrals>>
                /\ co'[p].pc \in ClaimPhase \cup {"check"}
       /\ \A p \in Procs :
             (/\ Steps(p)
              /\ co[p].pc = "is_referred"
              /\ co[p].pending_referrer = co[p].user)
             => /\ UNCHANGED <<users, referrals, promotions, txTasks>>
                /\ co'[p].pc \in {"menu", "remove_pending"}]_vars

\* add_referral(U, U) has returned False in one handler while a start of
\* another user carrying its own code has gone through the claim.
C7_Witness ==
    \E p, q \in Procs :
        /\ co[p].pc = "remove_pending"
        /\ co[p].pending_referrer = co[p].user
        /\ co[q].handler = "start"
        /\ co[q].pc = "check"
        /\ co[q].arg = ReferralCode(co[q].user)
        /\ co[q].referrer_found = co[q].user
        /\ pending[co[q].user] = None

\* C8: once a completed referral exists for F, no pending entry for F is
\* created.
C8_NoPendingAfterCompleted ==
    [][\A f \in Users :
          (referrals[f] # None /\ pending[f] = None) => pending'[f] = None]_vars

\* The handler that is promoting f, between the write of the referral and
\* the removal of the pending entry.
Promoting(p, f) ==
    /\ co[p].user = f
    /\ co[p].pc \in {"ar_get_user", "ar_read", "ar_update", "remove_pending"}

\* C9: promotion is one step for the other handlers: whenever another
\* coroutine is running, a user with a completed referral has no pending
\* entry and its referrer has been credited.
C9_PromotionAtomic ==
    \A f \in Users :
        (/\ referrals[f] # None
         /\ \E q \in Procs : Active(q) /\ ~Promoting(q, f))
        => /\ pending[f] = None
           /\ promotions[f] = 1

\* balance, referral_count and total_earned of every user.
Ledger(us) ==
    [u \in Users |-> <<us[u].balance, us[u].referral_count, us[u].total_earned>>]

\* C10: the claim changes no balance, referral_count or total_earned and
\* completes no referral; a referral is completed and its referrer credited
\* only by a handler of the referred user whose membership check returned
\* all-joined.
C10_DeferredCredit ==
    [][/\ \A p \in Procs :
             (Steps(p) /\ co[p].pc \in ClaimPhase)
             => UNCHANGED <<users, referrals, promotions>>
       /\ \A p \in Procs, u \in Users, arg \in StartArgs :
             StartCommand(p, u, arg)
             => Ledger(users') = Ledger(users) /\ UNCHANGED <<referrals, promotions>>
       /\ \A f \in Users :
             (referrals'[f] # referrals[f] \/ promotions'[f] # promotions[f])
             => \E p \in Procs :
                   /\ Steps(p)
                   /\ co[p].user = f
                   /\ co[p].has_joined
       /\ \A r \in Users :
             users'[r].referral_count # users[r].referral_count
             => \E p \in Procs :
                   /\ Steps(p)
                   /\ co[p].pending_referrer = r
                   /\ co[p].has_joined
                   /\ referrals[co[p].user] = r]_vars

\* A start carrying a valid code has recorded the claim, the membership
\* check said "not joined", and the referrer's account is as it was.
C10_Witness ==
    \E p \in Procs :
        /\ co[p].handler = "start"
        /\ co[p].pc = "join"
        /\ ~co[p].has_joined
        /\ co[p].referrer_found # None
        /\ pending[co[p].user] = co[p].referrer_found
        /\ ~users0[co[p].user].exists
        /\ users[co[p].referrer_found] = users0[co[p].referrer_found]
        /\ referrals[co[p].user] = None

\* The ledger figures of every account (an account that does not exist yet
\* counts with the figures it is created with).
Core(us) ==
    [u \in Users |-> <<us[u].balance, us[u].total_earned, us[u].total_withdrawn,
                       us[u].referral_count, us[u].welcome_bonus_received,
                       us[u].has_joined_channels, us[u].transactions>>]

\* A step that changes the ledger: an account's figures, the completed
\* referrals, or the transactions to be logged.
LedgerMutation ==
    Core(users') # Core(users) \/ referrals' # referrals \/ txTasks' # txTasks

\* The handler in slot p, before or after the step, is a start or a verify.
StartOrVerify(p) ==
    co[p].handler \in {"start", "verify"} \/ co'[p].handler \in {"start", "verify"}

\* The check of the handler in slot p returned a result (from the probes or
\* from the cache).
Checked(rec) == rec.source \in {"cache", "probes"}

\* The parts of the all-joined branch: 1 mark joined (lines 963 / 1081),
\* 2 welcome bonus (966 / 1084), 3 pending referral (969-972 / 1087-1090),
\* 4 the response (974-978 / 1092-1096); 0 is the code before the branch.
Stage(pc) ==
    CASE pc = "mark_joined" -> 1
      [] pc \in {"wb_get_user", "wb_check", "wb_update"} -> 2
      [] pc \in {"get_pending", "is_referred", "ar_lock", "ar_get_user",
                 "ar_read", "ar_update", "remove_pending"} -> 3
      [] pc = "menu" -> 4
      [] OTHER -> 0

\* C11: within one start or verify invocation the ledger is changed only
\* after the membership check returned all-joined, and in the order: mark
\* has_joined_channels, then the welcome bonus, then the promotion of the
\* pending referral (a part is entered only from the part before it, each
\* kind of change is made in its own part, and a referral is completed only
\* for a user whose welcome bonus has been dealt with).
C11_LedgerOrder ==
    [][\A p \in Procs :
          (Steps(p) /\ StartOrVerify(p)) =>
             /\ LedgerMutation => (Checked(co[p]) /\ co[p].has_joined)
             /\ Stage(co'[p].pc) = 1 => (Checked(co'[p]) /\ co'[p].has_joined)
             /\ Stage(co'[p].pc) \in {2, 3} =>
                   Stage(co[p].pc) \in {Stage(co'[p].pc) - 1, Stage(co'[p].pc)}
             /\ (\E u \in Users : users'[u].has_joined_channels
                                      # users[u].has_joined_channels)
                   => Stage(co[p].pc) = 1
             /\ grants' # grants => Stage(co[p].pc) = 2
             /\ (referrals' # referrals \/ promotions' # promotions)
                   => /\ Stage(co[p].pc) = 3
                      /\ users[co[p].user].welcome_bonus_received]_vars

\* One invocation has marked its user joined, granted the welcome bonus and
\* promoted the pending referral, and is about to answer.
C11_Witness ==
    \E p \in Procs :
        /\ co[p].pc = "menu"
        /\ co[p].welcome_bonus_given
        /\ co[p].pending_referrer \notin {None, co[p].user}
        /\ referrals[co[p].user] = co[p].pending_referrer
        /\ promotions[co[p].user] = 1
        /\ pending[co[p].user] = None
        /\ users[co[p].user].has_joined_channels

\* C12: a start or verify whose membership check reports not all joined
\* leaves the figures and the transaction log of every user and the
\* completed referrals as they are, at the check and in every later step.
C12_NotJoinedChangesNothing ==
    [][\A p \in Procs :
          /\ (/\ Steps(p)
              /\ StartOrVerify(p)
              /\ ~Checked(co[p])
              /\ Checked(co'[p])
              /\ ~co'[p].has_joined)
             => /\ ~LedgerMutation
                /\ co'[p].pc = "join"
          /\ (/\ Steps(p)
              /\ Checked(co[p])
              /\ ~co[p].has_joined)
             => /\ ~LedgerMutation
                /\ co'[p].pc \in {"menu", "idle"}]_vars

\* A verify whose fresh check reported a missing channel has gone through
\* show_join_buttons and is about to answer.
C12_Witness ==
    \E p \in Procs :
        /\ co[p].handler = "verify"
        /\ co[p].pc = "menu"
        /\ co[p].source = "probes"
        /\ ~co[p].has_joined

\* The message asks for amount a.
Asks(args, a) ==
    Len(args) >= 2 /\ float(args[1]).ok /\ float(args[1]).value = a

\* The transaction task of a withdrawal of amount a by user u.
WithdrawalTask(u, a) ==
    [user |-> u, amount |-> 0 - a, type |-> "withdrawal",
     description |-> "Withdrawal via", ref |-> None]

\* C18: a withdraw of one unit below the minimum is answered at once and
\* changes nothing, whatever the balance; a withdraw of exactly the minimum
\* goes on to the balance test, passes it when the balance is at least the
\* minimum, and is then accepted.
C18_WithdrawThreshold ==
    [][/\ \A p \in Procs, u \in Users, args \in WithdrawArgs :
             (WithdrawCommand(p, u, args) /\ Asks(args, MIN_WITHDRAW - 1))
             => UNCHANGED <<users, referrals, pending, txTasks, co, accepted>>
       /\ \A p \in Procs, u \in Users, args \in WithdrawArgs :
             (WithdrawCommand(p, u, args) /\ Asks(args, MIN_WITHDRAW))
             => /\ co'[p].pc = "wd_check"
                /\ co'[p].user = u
                /\ co'[p].amount = MIN_WITHDRAW
       /\ \A p \in Procs :
             (/\ Steps(p)
              /\ co[p].pc = "wd_check"
              /\ co[p].amount = MIN_WITHDRAW
              /\ users[co[p].user].balance >= MIN_WITHDRAW)
             => co'[p].pc = "wd_update"
       /\ \A p \in Procs :
             (/\ Steps(p)
              /\ co[p].pc = "wd_update"
              /\ co[p].amount = MIN_WITHDRAW)
             => /\ co'[p].pc = "idle"
                /\ accepted'[co[p].user] = FloatAdd(accepted[co[p].user], MIN_WITHDRAW)
                /\ txTasks' = txTasks
                               (+) SetToBag({WithdrawalTask(co[p].user, MIN_WITHDRAW)})]_vars

\* A withdrawal of exactly the minimum from a balance of exactly the minimum
\* has been accepted.
C18_Witness ==
    \E u \in Users :
        /\ users0[u].balance = MIN_WITHDRAW
        /\ accepted[u] = MIN_WITHDRAW
        /\ users[u].balance = 0
        /\ Quiescent

\* C19: a withdraw of more than the balance is rejected and changes no
\* balance, total or log and notifies nobody; a message whose amount is not
\* a proper number changes nothing of the ledger either.
C19_RejectedWithdrawChangesNothing ==
    [][/\ \A p \in Procs :
             (/\ Steps(p)
              /\ co[p].pc = "wd_check"
              /\ FloatLt(users[co[p].user].balance, co[p].amount))
             => /\ co'[p].pc = "idle"
                /\ ~LedgerMutation
                /\ accepted' = accepted
       /\ \A p \in Procs, u \in Users, args \in OtherWithdrawArgs :
             WithdrawCommand(p, u, args) => (~LedgerMutation /\ accepted' = accepted)
       /\ \A p \in Procs :
             (/\ Steps(p)
              /\ co[p].handler = "withdraw"
              /\ co[p].amount = NaN)
             => (~LedgerMutation /\ accepted' = accepted)]_vars

\* C20: an accepted withdraw of amount a, run without interference, takes
\* exactly a from the balance and adds exactly a to total_withdrawn, changes
\* nothing else of any account, and hands over one transaction of amount -a,
\* which is eventually appended, alone, to the user's log.
C20_AcceptedWithdraw ==
    /\ [][/\ \A p \in Procs :
                 (Steps(p) /\ co[p].pc = "wd_update")
                 => LET u == co[p].user
                        a == co[p].amount
                    IN  /\ users' = [users EXCEPT ![u].balance = @ - a,
                                                  ![u].total_withdrawn = @ + a]
                        /\ txTasks' = txTasks (+) SetToBag({WithdrawalTask(u, a)})
                        /\ UNCHANGED <<referrals, pending>>
           /\ \A t \in BagToSet(txTasks) :
                 (txTasks' # txTasks /\ t.type = "withdrawal")
                 => LET log == users[t.user].transactions
                    IN  /\ txTasks' = txTasks (-) SetToBag({t})
                        /\ Len(users'[t.user].transactions) = Len(log) + 1
                        /\ SubSeq(users'[t.user].transactions, 1, Len(log)) = log
                        /\ users'[t.user].transactions[Len(log) + 1].amount = t.amount
                        /\ users' = [users EXCEPT ![t.user].transactions =
                                                      users'[t.user].transactions]]_vars
    /\ \A u \in Users :
          (\E t \in BagToSet(txTasks) : t.user = u /\ t.type = "withdrawal")
          ~> (/\ ~\E t \in BagToSet(txTasks) : t.user = u
              /\ Len(users[u].transactions) > 0
              /\ users[u].transactions[Len(users[u].transactions)].type = "withdrawal")

\* A withdrawal has been accepted and logged.
C20_Witness ==
    \E u \in Users :
        /\ Quiescent
        /\ accepted[u] = MIN_WITHDRAW
        /\ users[u].balance = users0[u].balance - MIN_WITHDRAW
        /\ users[u].total_withdrawn = MIN_WITHDRAW
        /\ Len(users[u].transactions) = 1
        /\ users[u].transactions[1].amount = 0 - MIN_WITHDRAW

\* The membership check of the handler came to an end without a timeout and
\* without a probe that failed to answer.
Answered(rec) == Checked(rec) /\ rec.failed = {}

\* C13: the user's start was answered with not-joined and the user has then
\* joined @chA: the membership check of its verify reports joined, whenever
\* the verify is sent, and when the handler is done the welcome bonus is
\* credited (balance 1.0, welcome_bonus_received true).
C13_VerifyAfterJoin ==
    [][\A p \in Procs :
          /\ (/\ VerifyJoinCallback(p, Newcomer)
              /\ member[Newcomer] = Channels
              /\ Answered(co'[p]))
             => (co'[p].has_joined /\ co'[p].pc = "mark_joined")
          /\ (/\ Steps(p)
              /\ co[p].handler = "verify"
              /\ member[Newcomer] = Channels
              /\ Answered(co[p])
              /\ co'[p].pc = "idle")
             => /\ users'[Newcomer].balance = WELCOME_BONUS
                /\ users'[Newcomer].welcome_bonus_received]_vars

\* C14: the newcomer started with the referrer's code while in no channel,
\* joined, and sent verify: when the verify is done the referrer has one
\* bonus and one referral more, the newcomer has a completed referral to the
\* referrer, no pending entry, and its own welcome bonus.
C14_ReferralScenario ==
    [][\A p \in Procs :
          (/\ Steps(p)
           /\ co[p].handler = "verify"
           /\ member[Newcomer] = Channels
           /\ Answered(co[p])
           /\ co'[p].pc = "idle"
           /\ (pending[Newcomer] = 1 \/ referrals[Newcomer] = 1))
          => /\ users'[1].balance = Base(1).balance + REFERRAL_BONUS
             /\ users'[1].referral_count = Base(1).referral_count + 1
             /\ referrals'[Newcomer] = 1
             /\ pending'[Newcomer] = None
             /\ users'[Newcomer].balance = WELCOME_BONUS]_vars

(***************************************************************************)
(* The membership verifier: SpecCheck.                                     *)
(***************************************************************************)
Fresh(call) == call.pc = "returned" /\ call.source = "probes"

Missing(call, i) ==
    /\ channels[i] \in Range(call.result.not_joined)
    /\ ~call.result.has_joined

\* C15: a fresh result (one computed from probes, not read from the cache)
\* lists as missing every channel whose probe timed out or raised, so it
\* never reports such a user as joined; the entry cached for the call says
\* the same.
C15_ProbesFailClosed ==
    \A p \in Procs :
        Fresh(calls[p])
            => /\ \A i \in DOMAIN calls[p].tasks :
                      calls[p].tasks[i] \in {"timeout", "error"}
                          => Missing(calls[p], i)
               /\ cache_key(calls[p].user, channels) \in DOMAIN channel_check_cache

\* Both kinds of failure in one call, for a user who is a member of the
\* channels probed.
C15_Witness ==
    \E p \in Procs :
        /\ Fresh(calls[p])
        /\ Range(channels) \subseteq member[calls[p].user]
        /\ \E i, j \in DOMAIN calls[p].tasks :
               calls[p].tasks[i] = "timeout" /\ calls[p].tasks[j] = "error"

\* C16: a call that returns while probes are still outstanding does so only
\* once the overall deadline of 10 seconds has passed; those probes are
\* cancelled and their channels are in the missing list of the result, which
\* says "not joined".  The probes already done keep their results.
C16_DeadlineCancelsOutstanding ==
    [][\A p \in Procs :
          (Waiting(p) /\ calls'[p].pc = "returned"
              /\ \E i \in DOMAIN calls[p].tasks : calls[p].tasks[i] = "running")
            => /\ now - calls[p].current_time >= WAIT_TIMEOUT
               /\ \A i \in DOMAIN calls[p].tasks :
                      IF calls[p].tasks[i] = "running"
                      THEN calls'[p].tasks[i] = "cancelled" /\ Missing(calls'[p], i)
                      ELSE calls'[p].tasks[i] = calls[p].tasks[i]]_vars

\* The deadline has cut off the probe of a channel the user is a member of,
\* while another probe of the same call had answered.
C16_Witness ==
    \E p \in Procs :
        /\ Fresh(calls[p])
        /\ \E i, j \in DOMAIN calls[p].tasks :
               /\ calls[p].tasks[i] = "cancelled"
               /\ channels[i] \in member[calls[p].user]
               /\ calls[p].tasks[j] = "member"

\* C17: with no channel configured the verifier answers (true, []) in the
\* step of the call: no probe is created, the result does not come from
\* the cache and the cache is not written.
C17_NoChannelsNoGate ==
    [][\A p \in Procs, u \in Callers :
          (CheckChannelMembership(p, u) /\ channels = <<>>)
            => /\ calls'[p].pc = "returned"
               /\ calls'[p].result = [has_joined |-> TRUE, not_joined |-> <<>>]
               /\ calls'[p].tasks = <<>>
               /\ calls'[p].source = "none"
               /\ channel_check_cache' = <<>>
               /\ channel_check_cache = <<>>]_vars

\* Two calls answered with no channel configured, the clock still at rest.
C17_Witness ==
    /\ channels = <<>>
    /\ events = 2
    /\ \E p \in Procs : calls[p].pc = "returned" /\ calls[p].result.has_joined
    /\ channel_check_cache = <<>>
    /\ now = 0

(***************************************************************************)
(* The completed referrals.                                                *)
(***************************************************************************)

\* C25: a completed referral is created at most once per referred user and
\* is never changed or deleted: an entry of data_manager.referrals, once
\* written, keeps its referrer in every later state, and each step writes
\* an entry only where there was none.
C25_ReferralsAppendOnly ==
    [][\A f \in Users :
          /\ referrals[f] # None => referrals'[f] = referrals[f]
          /\ referrals'[f] # referrals[f]
                => \E p \in Procs : /\ co[p].pc = "ar_lock"
                                    /\ co[p].user = f
                                    /\ referrals'[f] = co[p].pending_referrer]_vars

\* add_referral was refused for a user whose referral is completed, the
\* pending entry read by the handler naming another referrer than the one
\* recorded.
C25_Witness ==
    \E p \in Procs :
        /\ co[p].pc = "remove_pending"
        /\ referrals[co[p].user] # None
        /\ co[p].pending_referrer # None
        /\ co[p].pending_referrer # referrals[co[p].user]

(***************************************************************************)
(* The figures of an account.                                              *)
(***************************************************************************)

\* a >= b on floats: false when either side is not a number.
FloatGe(a, b) == a # NaN /\ b # NaN /\ a >= b

\* C21: in every reachable state every user's balance is >= 0.
C21_BalanceNonNegative ==
    \A u \in Users : FloatGe(users[u].balance, 0)

\* C22: for every user, total_earned and total_withdrawn never decrease from
\* one state to the next.
C22_TotalsNeverDecrease ==
    [][\A u \in Users :
          /\ ~FloatLt(users'[u].total_earned, users[u].total_earned)
          /\ ~FloatLt(users'[u].total_withdrawn, users[u].total_withdrawn)]_vars

(***************************************************************************)
(* The transaction log.                                                    *)
(***************************************************************************)

\* C23: transaction ids are per-user monotonic: in every user's log the ids
\* are strictly increasing in log order (as they are when every new entry
\* gets an id above all ids issued to the user before), also after the log
\* has been cut to its retention bound.
C23_TransactionIdsIncrease ==
    \A u \in Users :
        \A i, j \in DOMAIN users[u].transactions :
            i < j => users[u].transactions[i].id < users[u].transactions[j].id

\* What a transaction says, apart from its id.
Body(tx) == <<tx.amount, tx.type, tx.description, tx.ref>>

\* C24: a log never holds more than MAX_TRANSACTIONS entries; it changes
\* only when a call of add_transaction ends, which puts its entry at the end
\* and, when the bound is exceeded, drops the entry at the front: the log
\* holds the most recently appended entries, in the order of their appends.
C24_LogKeepsMostRecent ==
    [][\A u \in Users :
          LET old == users[u].transactions
              new == users'[u].transactions
              k   == IF Len(old) < MAX_TRANSACTIONS THEN 0 ELSE 1
              appended == {t \in BagToSet(txTasks) :
                              t.user = u /\ txTasks' = txTasks (-) SetToBag({t})}
          IN  /\ Len(new) <= MAX_TRANSACTIONS
              /\ IF appended = {}
                 THEN new = old
                 ELSE /\ Len(new) = Len(old) + 1 - k
                      /\ \E t \in appended : Body(new[Len(new)]) = Body(t)
                      /\ \A i \in 1..(Len(new) - 1) : new[i] = old[i + k]]_vars

\* A full log has taken one more entry, and its oldest one is gone.
C24_Witness ==
    \E u \in Users :
        /\ Len(users[u].transactions) = MAX_TRANSACTIONS
        /\ users[u].transactions[MAX_TRANSACTIONS].id = MAX_TRANSACTIONS + 1
        /\ users[u].transactions[1].id = 2

(***************************************************************************)
(* The responses.                                                          *)
(***************************************************************************)

\* The handler in slot p sends the join prompt (lines 1031-1057), or the
\* main menu (lines 1133-1142), and ends.
EmitsJoinPrompt(p) == co[p].pc = "join" /\ co'[p].pc = "idle"

EmitsMainMenu(p) == co[p].pc = "menu" /\ co'[p].pc = "idle"

\* C26: a start or verify handler whose membership check reported "not all
\* joined" answers with the join prompt, not with the main menu: it goes to
\* show_join_buttons, and from there it does not go on to the main menu.
C26_NotJoinedGetsJoinPrompt ==
    [][\A p \in Procs :
          /\ (co[p].pc # co'[p].pc /\ Checked(co'[p]) /\ ~co'[p].has_joined
                 /\ co[p].pc \in {"idle", "check"})
                => co'[p].pc = "join"
          /\ (co[p].pc = "join" /\ Steps(p)) => EmitsJoinPrompt(p)]_vars

\* C27: whenever a promotion occurs (add_referral returns True for R and F
\* in a start or verify handler), a notification of it is eventually sent
\* to the referrer R.
C27_ReferrerNotified ==
    \A f \in Users, r \in Users :
        (promotions[f] > 0 /\ referrals[f] = r)
            ~> (Notice(r, "referral", f) \in notices)

(***************************************************************************)
(* The start parameter.                                                    *)
(***************************************************************************)

\* C28: a start parameter resolves to referrer U only if it is exactly U's
\* stored referral code; a token that merely begins with REF, that has a
\* stored code as a proper prefix, or that is a proper prefix of one,
\* resolves to nobody and creates no pending entry: every pending entry
\* written names the owner of the code that the writing handler was given.
C28_ExactCodeMatch ==
    [][/\ \A p \in Procs :
             (co[p].pc = "st_scan" /\ Steps(p))
                => LET found == co'[p].referrer_found
                   IN  IF \E u \in Users : users[u].exists /\ ReferralCode(u) = co[p].arg
                       THEN found # None /\ ReferralCode(found) = co[p].arg
                       ELSE found = None /\ co'[p].pc = "check"
       /\ \A u \in Users :
             (pending'[u] # pending[u] /\ pending'[u] # None)
                => \E p \in Procs : /\ co[p].pc = "st_add_pending"
                                    /\ co[p].user = u
                                    /\ co[p].arg = ReferralCode(pending'[u])]_vars

\* Such a token has been looked up for a user who is not referred and has
\* no pending entry, and it has resolved to nobody.
C28_Witness ==
    \E p \in Procs :
        /\ co[p].handler = "start"
        /\ co[p].arg \in OtherStartArgs
        /\ co[p].pc = "check"
        /\ co[p].referrer_found = None
        /\ ~is_referred(co[p].user)
        /\ pending[co[p].user] = None
        /\ users[1].exists

C30_EveryEventAnswered ==
    \A c \in Coroutines : (entries[c] = "acquire") ~> (entries[c] = "done")

\* The probes of call p that are in flight: their task is created and has
\* not finished.
InFlight(p) == {i \in DOMAIN calls[p].tasks : calls[p].tasks[i] = "running"}

\* C31: during one call of check_channel_membership, whatever the number of
\* configured channels, at most 5 membership probes are in flight at the
\* same time.
C31_ProbesInFlightBounded ==
    \A p \in Procs : Cardinality(InFlight(p)) <= 5

\* The call in slot p starts in this step.
Starts(p) == events' = events + 1 /\ calls'[p] # calls[p]

\* The cache entry under the key of user u, if any, is younger than the TTL.
YoungEntry(u) ==
    /\ cache_key(u, channels) \in DOMAIN channel_check_cache
    /\ now - channel_check_cache[cache_key(u, channels)].cache_time < CACHE_TIMEOUT

\* C32: a cached result is returned only while its age is strictly less
\* than the TTL of 300 s; at an age of 300 s or more the entry is ignored,
\* a probe is started for every channel, and the entry is replaced by the
\* result of these probes when the call returns it.  A call that ends in
\* the error branch, or is cancelled, writes nothing into the cache.
C32_CacheTTL ==
    [][\A p \in Procs :
          LET u == calls'[p].user
              key == cache_key(calls[p].user, channels)
          IN  /\ (Starts(p) /\ calls'[p].source = "cache")
                    => /\ YoungEntry(u)
                       /\ calls'[p].result =
                              channel_check_cache[cache_key(u, channels)].result
              /\ (Starts(p) /\ channels # <<>> /\ ~YoungEntry(u))
                    => /\ Waiting(p)'
                       /\ calls'[p].tasks = [i \in DOMAIN channels |-> "running"]
                       /\ channel_check_cache' = channel_check_cache
              /\ (Waiting(p) /\ calls'[p].pc = "returned"
                             /\ calls'[p].source = "probes")
                    => /\ key \in DOMAIN channel_check_cache'
                       /\ channel_check_cache'[key] =
                              [cache_time |-> calls[p].current_time,
                               result |-> calls'[p].result]
              /\ (Waiting(p) /\ ~Waiting(p)' /\ calls'[p].source # "probes")
                    => channel_check_cache' = channel_check_cache
              /\ (Waiting(p) /\ calls'[p].pc = "cancelled")
                    => channel_check_cache' = channel_check_cache]_vars

\* The calls were made one after the other in slot 1; the one there now
\* found an entry as old as the TTL or older and waits for a probe of every
\* channel.
C32_Witness ==
    /\ \A q \in Procs : q # 1 => calls[q].pc = "idle"
    /\ Waiting(1)
    /\ cache_key(calls[1].user, channels) \in DOMAIN channel_check_cache
    /\ calls[1].current_time
         - channel_check_cache[cache_key(calls[1].user, channels)].cache_time
           >= CACHE_TIMEOUT
    /\ Len(channels) = MaxChannels
    /\ \A i \in DOMAIN channels : calls[1].tasks[i] = "running"

\* The invite link of the i-th channel of the argument can be resolved.
Resolvable(rec, i) ==
    /\ rec.platform[i] # "slow"
    /\ get_invite_link(rec.not_joined[i], rec.platform[i]) # <<>>

\* C33: when show_join_buttons answers, a timeout or a failure on the link
\* of one channel has not kept the others from theirs: every channel among
\* those shown whose link can be resolved has its button.
C33_LinksIndependent ==
    [][\A p \in Procs :
          (co[p].pc = "send" /\ Steps(p))
             => \A i \in DOMAIN Shown(co[p].not_joined) :
                   Resolvable(co[p], i)
                      => co[p].not_joined[i] \in Range(co[p].keyboard)]_vars

\* The chat id under which a configured id counts: a bare numeric id of more
\* than 9 digits is the channel of its -100 form.
SameChannelAs(id) ==
    IF id # <<>> /\ (\A i \in DOMAIN id : id[i] \in Range(DigitChar)) /\ Len(id) > 9
    THEN <<"-", "1", "0", "0">> \o id
    ELSE id

\* C34: once the registry is initialised from the configured list, no two
\* of its entries have the same normalized chat id (a bare numeric id of
\* more than 9 digits and its -100 form are one channel), and no handler
\* adds or removes a channel afterwards.
C34_RegistryUniqueAndFixed ==
    /\ [](\A i, j \in DOMAIN channels :
             i # j => SameChannelAs(channels[i]) # SameChannelAs(channels[j]))
    /\ [][events >= 0 => channels' = channels]_vars

\* The bare id and its -100 form were both configured, the registry has the
\* channel once, and a verify event has been handled since.
C34_Witness ==
    /\ \E i, j \in DOMAIN INITIAL_CHANNELS :
          /\ INITIAL_CHANNELS[i] = BareId
          /\ INITIAL_CHANNELS[j] = <<"-", "1", "0", "0">> \o BareId
    /\ events > 0
    /\ Quiescent
    /\ Cardinality({i \in DOMAIN channels :
                       channels[i] = <<"-", "1", "0", "0">> \o BareId}) = 1

\* C35: the lock of the ledger never deadlocks: with acquire and release
\* both run by the pool of 5 worker threads, and any number of coroutines
\* entering _async_lock at once, every coroutine that asks for the lock
\* gets it and the release of every holder is executed.
C35_LockNeverDeadlocks ==
    \A c \in Coroutines :
        /\ (entries[c] = "acquire") ~> (entries[c] = "body")
        /\ (entries[c] = "release") ~> (entries[c] = "respond")

\* C36: conservation of the ledger: whenever no operation is in progress,
\* the balance of every account is its total_earned minus its
\* total_withdrawn (the accounts start that way), whatever the interleaving
\* of welcome bonuses, referral credits and withdrawals.
C36_Conservation ==
    Quiescent =>
        \A u \in Users :
            users[u].exists =>
                users[u].balance
                    = FloatSub(users[u].total_earned, users[u].total_withdrawn)

\* C37: in every state an account whose welcome_bonus_received is true has
\* has_joined_channels true, whatever the order of the events (a verify
\* event from a user without an account included), and neither flag goes
\* back from true to false.
C37_BonusImpliesJoined ==
    /\ [](\A u \in Users :
             (users[u].exists /\ users[u].welcome_bonus_received)
                => users[u].has_joined_channels)
    /\ [][\A u \in Users :
             /\ (users[u].exists /\ users[u].welcome_bonus_received)
                   => (users'[u].exists /\ users'[u].welcome_bonus_received)
             /\ (users[u].exists /\ users[u].has_joined_channels)
                   => (users'[u].exists /\ users'[u].has_joined_channels)]_vars

====
